---- MODULE Spec2Model ----
(***************************************************************************)
(* Web-RAG retrieval pipeline of routstr-core: the concurrent scraper      *)
(* (BaseWebScrape), the concurrent chunk stage (BaseWebChunk), the         *)
(* pipeline orchestrator (CustomRAG), the BM25 local-to-global pruner      *)
(* (BM25WebRank) and the context injection of WebManager.                  *)
(*                                                                         *)
(* Optional values (Python None) are sequences of length at most one:      *)
(* None is <<>> and a present value x is <<x>>.                            *)
(***************************************************************************)
EXTENDS Integers, Sequences, FiniteSets, TLC

\* ------------------------------------------------------------------ bounds
MaxPages == 3
MaxConcurrent == 2
MaxRankPages == 2
MaxRankChunks == 3
MaxK == 2
MaxRagPages == 2
MaxTime == 2
MaxMessages == 4
MaxInjPages == 2
MaxCallers == 3

\* ------------------------------------------------------------- page model
None == <<>>
Some(x) == <<x>>

\* URLs handed out by the search stage, distinct within one SearchResult.
UrlPool == <<"https://ok1.com", "https://fail.com", "https://ok2.com",
             "https://d.com", "https://e.com">>

\* types.WebPage (only the fields the stages write).
WebPage(u, c, ch) == [url |-> u, content |-> c, chunks |-> ch]

\* dataclasses.replace(page, content=c) / replace(page, chunks=ch)
ReplaceContent(page, c) == [page EXCEPT !.content = c]
ReplaceChunks(page, ch) == [page EXCEPT !.chunks = ch]

\* Python truthiness of an Optional[str] and of an Optional[List]: None and
\* the empty value are both falsy.
TruthyStr(opt) == opt # None /\ opt[1] # ""
TruthyList(opt) == opt # None /\ opt[1] # <<>>

\* Text a successful scrape_url can put into content (the empty string is
\* what extraction yields for an empty body).
Contents == {"", "aa bb"}

\* Chunk lists chunk_text can return for a page's content.
ChunkLists == {<<"aa bb">>, <<"aa", "bb">>}

\* What a finished task hands to asyncio.gather: a WebPage or an exception.
PageResult(p) == [kind |-> "page", page |-> p]
ExcResult(p) == [kind |-> "exc", page |-> p]
NoResult == [kind |-> "none", page |-> WebPage("", None, None)]

VARIABLES
    webpages,        \* scrape_webpages: the input list
    max_concurrent,  \* scrape_webpages: the limit
    semaphore,       \* asyncio.Semaphore._value
    waiters,         \* tasks queued on the semaphore, first in first out
    tpc,             \* per task: "waiting", "fetching", "chunking", "done"
    tres,            \* per task: what the task returned to gather
    doneOrder,       \* scrape tasks finished so far, in completion order
    chunkOrder,      \* chunk tasks finished so far, in completion order
    fetched,         \* per page: how its scrape_url call ended
    scraped,         \* what scrape_webpages returned (<<>> until it returns)
    chunked,         \* what chunk_search_results returned
    phase            \* "scrape", "chunk", "end"

pageVars == <<webpages, max_concurrent, semaphore, waiters, tpc, tres,
              doneOrder, chunkOrder, fetched, scraped, chunked, phase>>

VARIABLES
    rank_bm25_available, \* BM25WebRank.RANK_BM25_AVAILABLE
    rk_result,       \* rank: the search_result argument (its webpages)
    rk_query,        \* rank: the query argument
    local_k,         \* BM25WebRank.local_k
    global_k,        \* BM25WebRank.global_k
    local_result,    \* rank: what _rank_local returned
    final_result,    \* rank: what rank returned
    rkpc             \* "start", "done", "unranked", "raised"

rankVars == <<rank_bm25_available, rk_result, rk_query, local_k, global_k,
              local_result, final_result, rkpc>>

VARIABLES
    rag_query,       \* retrieve: the query argument
    enable_chunking, \* settings.enable_chunking
    chunk_max_chunks_per_source, \* settings.chunk_max_chunks_per_source
    rag_now,         \* datetime.now(), in ticks
    start_time,      \* retrieve: start_time
    search_done_at,  \* the tick at which search_provider.search returned
    search_response, \* retrieve: search_response (None before search returns)
    ret,             \* what retrieve returned (None until it returns)
    calls,           \* the provider methods called so far, with their page
    ci,              \* _chunk_search_results: index of the result at hand
    rpc              \* "idle", "start", "searching", "scraping", "chunk_text",
                     \* "returned", "raised"

ragVars == <<rag_query, enable_chunking, chunk_max_chunks_per_source, rag_now,
             start_time, search_done_at, search_response, ret, calls, ci, rpc>>

VARIABLES
    search_has_check,  \* hasattr(search_provider, "check_availability")
    search_available,  \* its outcome: "yes", "no", "raises"
    scraper_available, \* what the scraper's own probe would answer
    chunk_size,        \* chunker_provider.chunk_size
    chunk_overlap,     \* chunker_provider.chunk_overlap
    all_available,     \* what check_availability returned (None before)
    avpc               \* "idle", "start", "done"

availVars == <<search_has_check, search_available, scraper_available,
               chunk_size, chunk_overlap, all_available, avpc>>

VARIABLES
    request_body,      \* _inject_web_context_into_request: request_body
    inj_search_result, \* its search_result argument (None or the webpages)
    out_body,          \* the body it returned
    sources,           \* the sources map it returned
    ipc                \* "idle", "start", "skipped", "failed", "injected"

injVars == <<request_body, inj_search_result, out_body, sources, ipc>>

VARIABLES
    settings,     \* core.settings: the provider names and API keys
    providers,    \* WebManager._rag_provider, _search_provider, ...
    next_id,      \* the number the next constructed instance gets
    stage_ret,    \* per stage getter: its last direct call
    cpc,          \* per get_rag_provider call: "off", "idle", "avail",
                  \* "gather", "done"
    cand,         \* per call: the instance it constructed (tavily, exa,
                  \* custom_rag)
    gidx,         \* per call: the next gathered stage getter to run
    gathered,     \* per call: search, scrape, chunk, rank as gathered
    result,       \* per call: what it returned
    seen,         \* per call: the providers returned before it started
    built,        \* per call: it constructed a RAG provider
    checked,      \* per call: it ran check_availability
    wrote         \* per call: it assigned _rag_provider

mgrVars == <<settings, providers, next_id, stage_ret, cpc, cand, gidx,
             gathered, result, seen, built, checked, wrote>>

VARIABLES
    enh_body,           \* request_body of enhance_request_with_web_context
    epc,                \* where the enhance call is
    enh_query,          \* extracted_query, None for ""
    retrieve_raised,    \* retrieve_context raised
    enh_search_result,  \* search_result, Some(pages) once returned
    enh_ret             \* the dict returned, None before
enhVars == <<enh_body, epc, enh_query, retrieve_raised, enh_search_result,
             enh_ret>>

VARIABLES
    rc_text,           \* the text given to RecursiveChunker.chunk_text
    rc_chunk_size,     \* self.chunk_size
    rc_chunk_overlap,  \* self.chunk_overlap
    rc_raw,            \* raw_chunks before the overlap is applied
    rc_chunks,         \* the chunks returned
    rcpc               \* "idle", "start", "done"

rcVars == <<rc_text, rc_chunk_size, rc_chunk_overlap, rc_raw, rc_chunks, rcpc>>

VARIABLES
    fx_text,           \* the text given to FixedSizeChunker.chunk_text
    fx_chunk_size,     \* self.chunk_size
    fx_chunk_overlap,  \* self.chunk_overlap
    fx_chunks,         \* the chunks returned
    fx_merged,         \* the remainder was appended to the last chunk
    fxpc               \* "idle", "start", "done"

fxVars == <<fx_text, fx_chunk_size, fx_chunk_overlap, fx_chunks, fx_merged, fxpc>>

VARIABLES
    ex_raw_html,   \* raw_html given to DefaultWebScraper.extract_content
    ex_available,  \* the extraction libraries that could be imported
    ex_outcome,    \* per extractor: what a call of it does
    ex_idx,        \* the next entry of `extractors` to try
    ex_tried,      \* the extractors called, in order
    ex_ret,        \* the value returned, None before
    expc           \* "idle", "loop", "done"

exVars == <<ex_raw_html, ex_available, ex_outcome, ex_idx, ex_tried, ex_ret, expc>>

\* FixedSizeChunker.chunk_text step by step: the attributes the loop reads, the
\* cursor `start`, the chunks made so far and the position in the method.
VARIABLES lp_text, lp_chunk_size, lp_chunk_overlap, lp_start, lp_chunks, lppc
loopVars == <<lp_text, lp_chunk_size, lp_chunk_overlap, lp_start, lp_chunks, lppc>>

\* DefaultWebScraper.scrape_url: the url, the response the server sends
\* (headers and body), the body bytes held in memory, the check that rejected
\* the response, the value returned and the position in the method.
VARIABLES url_len, header_content_type, header_content_length, body_size,
          body_has_null, buffered, rejected, scrape_ret, ftpc
fetchVars == <<url_len, header_content_type, header_content_length, body_size,
               body_has_null, buffered, rejected, scrape_ret, ftpc>>

vars == <<pageVars, rankVars, ragVars, availVars, injVars, mgrVars, enhVars,
          rcVars, fxVars, exVars, loopVars, fetchVars>>

\* What the steps of one component leave alone: the other components.
notPageVars == <<rankVars, ragVars, availVars, injVars, mgrVars, enhVars,
                 rcVars, fxVars, exVars, loopVars, fetchVars>>
notRankVars == <<pageVars, ragVars, availVars, injVars, mgrVars, enhVars,
                 rcVars, fxVars, exVars, loopVars, fetchVars>>
notRagVars == <<pageVars, rankVars, availVars, injVars, mgrVars, enhVars,
                rcVars, fxVars, exVars, loopVars, fetchVars>>
notAvailVars == <<pageVars, rankVars, ragVars, injVars, mgrVars, enhVars,
                  rcVars, fxVars, exVars, loopVars, fetchVars>>
notInjVars == <<pageVars, rankVars, ragVars, availVars, mgrVars, enhVars,
                rcVars, fxVars, exVars, loopVars, fetchVars>>
notMgrVars == <<pageVars, rankVars, ragVars, availVars, injVars, enhVars,
                rcVars, fxVars, exVars, loopVars, fetchVars>>
notEnhVars == <<pageVars, rankVars, ragVars, availVars, injVars, mgrVars,
                rcVars, fxVars, exVars, loopVars, fetchVars>>
notBothVars == <<pageVars, rankVars, ragVars, availVars, injVars, rcVars,
                 fxVars, exVars, loopVars, fetchVars>>
notRcVars == <<pageVars, rankVars, ragVars, availVars, injVars, mgrVars,
               enhVars, fxVars, exVars, loopVars, fetchVars>>
notFxVars == <<pageVars, rankVars, ragVars, availVars, injVars, mgrVars,
               enhVars, rcVars, exVars, loopVars, fetchVars>>
notExVars == <<pageVars, rankVars, ragVars, availVars, injVars, mgrVars,
               enhVars, rcVars, fxVars, loopVars, fetchVars>>
notLoopVars == <<pageVars, rankVars, ragVars, availVars, injVars, mgrVars,
                 enhVars, rcVars, fxVars, exVars, fetchVars>>
notFetchVars == <<pageVars, rankVars, ragVars, availVars, injVars, mgrVars,
                  enhVars, rcVars, fxVars, exVars, loopVars>>

N == Len(webpages)
Tasks == 1..N

RECURSIVE SeqOfRange(_, _)
SeqOfRange(a, b) == IF a > b THEN <<>> ELSE <<a>> \o SeqOfRange(a + 1, b)

\* ------------------------------------------------------- BaseWebScrape
\* asyncio.Semaphore.acquire without blocking: a permit is free.
CanAcquireUnbounded(value) == TRUE
CanAcquire(value) == value > 0

\* _bounded_scrape, `except Exception`: the page is returned as it came in.
BoundedScrapeRaisedDropsPage(page) == ExcResult(page)
BoundedScrapeRaised(page) == PageResult(page)

\* asyncio.gather(*tasks): results in the order of the tasks given.
GatherByCompletion(res, order) == [i \in 1..Len(order) |-> res[order[i]]]
Gather(res, order) == [i \in 1..Len(order) |-> res[i]]

\* scrape_webpages, lines 87-94: keep the results that are WebPage objects.
RECURSIVE ValidResults(_)
ValidResults(results) ==
    IF results = <<>> THEN <<>>
    ELSE (IF Head(results).kind = "page" THEN <<Head(results).page>> ELSE <<>>)
         \o ValidResults(Tail(results))

PagesInit ==
    /\ \E n \in 0..MaxPages :
          webpages = [i \in 1..n |-> WebPage(UrlPool[i], None, None)]
    /\ max_concurrent \in 1..MaxConcurrent
    /\ semaphore = max_concurrent
    /\ waiters = SeqOfRange(1, Len(webpages))
    /\ tpc = [i \in 1..Len(webpages) |-> "waiting"]
    /\ tres = [i \in 1..Len(webpages) |-> NoResult]
    /\ doneOrder = <<>>
    /\ chunkOrder = <<>>
    /\ fetched = [i \in 1..Len(webpages) |-> "pending"]
    /\ scraped = <<>>
    /\ chunked = <<>>
    /\ phase = "scrape"

\* `async with semaphore`: the task at the head of the queue takes a permit
\* and starts scrape_url.
Acquire(i) ==
    /\ phase = "scrape"
    /\ waiters # <<>> /\ Head(waiters) = i
    /\ CanAcquire(semaphore)
    /\ semaphore' = semaphore - 1
    /\ waiters' = Tail(waiters)
    /\ tpc' = [tpc EXCEPT ![i] = "fetching"]
    /\ UNCHANGED <<webpages, max_concurrent, tres, doneOrder, chunkOrder,
                   fetched, scraped, chunked, phase,
                   notPageVars>>

\* Leaving `async with semaphore`: __aexit__ releases the permit however the
\* block ended.
ReleaseOnSuccessOnly(value, how) == IF how = "raised" THEN value ELSE value + 1
Release(value, how) == value + 1

\* The task ends with result r and leaves `async with`: the permit is released.
FinishFetch(i, how, r) ==
    /\ phase = "scrape"
    /\ tpc[i] = "fetching"
    /\ tres' = [tres EXCEPT ![i] = r]
    /\ tpc' = [tpc EXCEPT ![i] = "done"]
    /\ fetched' = [fetched EXCEPT ![i] = how]
    /\ semaphore' = Release(semaphore, how)
    /\ doneOrder' = Append(doneOrder, i)
    /\ UNCHANGED <<webpages, max_concurrent, waiters, chunkOrder, scraped,
                   chunked, phase,
                   notPageVars>>

\* scrape_url returned a new WebPage with content populated.
ScrapeOk(i) ==
    \E c \in Contents :
        FinishFetch(i, "ok", PageResult(ReplaceContent(webpages[i], Some(c))))

\* scrape_url gave up on the page and returned the original object.
ScrapeRejected(i) == FinishFetch(i, "rejected", PageResult(webpages[i]))

\* scrape_url raised (network error, timeout): caught in _bounded_scrape.
ScrapeRaised(i) == FinishFetch(i, "raised", BoundedScrapeRaised(webpages[i]))

\* gather has every result: scrape_webpages filters and returns, and
\* chunk_search_results creates one task per scraped page.
ScrapeReturn ==
    /\ phase = "scrape"
    /\ \A i \in Tasks : tpc[i] = "done"
    /\ scraped' = ValidResults(Gather(tres, doneOrder))
    /\ phase' = "chunk"
    /\ tpc' = [i \in 1..Len(scraped') |-> "chunking"]
    /\ tres' = [i \in 1..Len(scraped') |-> NoResult]
    /\ UNCHANGED <<webpages, max_concurrent, semaphore, waiters, doneOrder,
                   chunkOrder, fetched, chunked,
                   notPageVars>>

\* ------------------------------------------- BaseWebScrape, cancellation
\* The task that awaits gather (line 85) is cancelled, by its caller or by a
\* deadline around the call: gather cancels every task that is not done, and
\* a task waiting for the semaphore leaves its queue.
CancelSignal ==
    /\ phase = "scrape"
    /\ \E i \in Tasks : tpc[i] # "done"
    /\ phase' = "cancelling"
    /\ waiters' = <<>>
    /\ tpc' = [i \in Tasks |-> IF tpc[i] = "waiting" THEN "cancelled" ELSE tpc[i]]
    /\ UNCHANGED <<webpages, max_concurrent, semaphore, tres, doneOrder,
                   chunkOrder, fetched, scraped, chunked,
                   notPageVars>>

\* CancelledError is raised inside scrape_url; `except Exception` (line 79)
\* does not catch it, and leaving `async with` releases the permit.
FetchCancelled(i) ==
    /\ phase = "cancelling"
    /\ tpc[i] = "fetching"
    /\ tpc' = [tpc EXCEPT ![i] = "cancelled"]
    /\ fetched' = [fetched EXCEPT ![i] = "cancelled"]
    /\ semaphore' = semaphore + 1
    /\ UNCHANGED <<webpages, max_concurrent, waiters, tres, doneOrder,
                   chunkOrder, scraped, chunked, phase,
                   notPageVars>>

\* Every task has ended: CancelledError leaves gather and scrape_webpages
\* (lines 85-94 have no handler), and CustomRAG.retrieve, whose handler is
\* `except Exception`, passes it on: nothing is returned.
ScrapeCancelled ==
    /\ phase = "cancelling"
    /\ \A i \in Tasks : tpc[i] \in {"done", "cancelled"}
    /\ phase' = "cancelled"
    /\ UNCHANGED <<webpages, max_concurrent, semaphore, waiters, tpc, tres,
                   doneOrder, chunkOrder, fetched, scraped, chunked,
                   notPageVars>>

\* -------------------------------------------------------- BaseWebChunk
FinishChunk(i, r) ==
    /\ phase = "chunk"
    /\ tpc[i] = "chunking"
    /\ tres' = [tres EXCEPT ![i] = r]
    /\ tpc' = [tpc EXCEPT ![i] = "done"]
    /\ chunkOrder' = Append(chunkOrder, i)
    /\ UNCHANGED <<webpages, max_concurrent, semaphore, waiters, doneOrder,
                   fetched, scraped, chunked, phase,
                   notPageVars>>

\* process: a page without content is returned as it is.
ChunkSkip(i) ==
    /\ phase = "chunk" /\ tpc[i] = "chunking"
    /\ ~TruthyStr(scraped[i].content)
    /\ FinishChunk(i, PageResult(scraped[i]))

\* process: chunk_text returned the chunks.
ChunkOk(i) ==
    /\ phase = "chunk" /\ tpc[i] = "chunking"
    /\ TruthyStr(scraped[i].content)
    /\ \E ch \in ChunkLists :
          FinishChunk(i, PageResult(ReplaceChunks(scraped[i], Some(ch))))

\* process: chunk_text raised, the page gets chunks=None.
ChunkRaised(i) ==
    /\ phase = "chunk" /\ tpc[i] = "chunking"
    /\ TruthyStr(scraped[i].content)
    /\ FinishChunk(i, PageResult(ReplaceChunks(scraped[i], None)))

\* chunk_search_results: gather returned, the new SearchResult is built.
ChunkReturn ==
    /\ phase = "chunk"
    /\ \A i \in 1..Len(scraped) : tpc[i] = "done"
    /\ chunked' = [i \in 1..Len(scraped) |-> Gather(tres, chunkOrder)[i].page]
    /\ phase' = "end"
    /\ UNCHANGED <<webpages, max_concurrent, semaphore, waiters, tpc, tres,
                   doneOrder, chunkOrder, fetched, scraped,
                   notPageVars>>

PagesNext ==
    \/ \E i \in Tasks : Acquire(i)
    \/ \E i \in Tasks : ScrapeOk(i)
    \/ \E i \in Tasks : ScrapeRejected(i)
    \/ \E i \in Tasks : ScrapeRaised(i)
    \/ ScrapeReturn
    \/ \E i \in 1..Len(scraped) : ChunkSkip(i)
    \/ \E i \in 1..Len(scraped) : ChunkOk(i)
    \/ \E i \in 1..Len(scraped) : ChunkRaised(i)
    \/ ChunkReturn

\* No scrape or chunk call is under way.
PagesIdle ==
    /\ webpages = <<>> /\ max_concurrent = 1 /\ semaphore = 1
    /\ waiters = <<>> /\ tpc = <<>> /\ tres = <<>>
    /\ doneOrder = <<>> /\ chunkOrder = <<>> /\ fetched = <<>>
    /\ scraped = <<>> /\ chunked = <<>> /\ phase = "end"

\* ---------------------------------------------------------- BM25WebRank
\* Texts (chunks, queries) are sequences of one-character strings.
T_btc == <<"B", "T", "C", "!">>
T_sun == <<"s", "u", "n">>
T_punct == <<"?", "!">>
T_query == <<"-", ">", "B", "t", "c", "?">>

\* Chunk texts the chunk stage can have produced, and the queries asked.
ChunkTexts == {T_btc, T_sun, T_punct}
Queries == {T_query}

\* str.lower() on one character.
Lower(c) ==
    CASE c = "B" -> "b" [] c = "T" -> "t" [] c = "C" -> "c" [] OTHER -> c

\* The characters of string.punctuation and the whitespace that occur.
Punctuation == {"!", "?", "-", ">", ".", ","}
Whitespace == {" "}

\* text.lower().translate(str.maketrans("", "", string.punctuation))
RECURSIVE LowerStrip(_)
LowerStrip(text) ==
    IF text = <<>> THEN <<>>
    ELSE (IF Lower(Head(text)) \in Punctuation THEN <<>> ELSE <<Lower(Head(text))>>)
         \o LowerStrip(Tail(text))

\* str.split(): the maximal runs of non-whitespace; cur is the run being read.
RECURSIVE SplitWords(_, _)
SplitWords(text, cur) ==
    IF text = <<>> THEN (IF cur = <<>> THEN <<>> ELSE <<cur>>)
    ELSE IF Head(text) \in Whitespace
         THEN (IF cur = <<>> THEN <<>> ELSE <<cur>>) \o SplitWords(Tail(text), <<>>)
         ELSE SplitWords(Tail(text), Append(cur, Head(text)))

\* _sort_chunks.tokenize
Tokenize(text) == SplitWords(LowerStrip(text), <<>>)

Range(f) == {f[i] : i \in DOMAIN f}
Min(a, b) == IF a <= b THEN a ELSE b
Max(a, b) == IF a >= b THEN a ELSE b
Sign(x) == IF x > 0 THEN 1 ELSE IF x < 0 THEN 0 - 1 ELSE 0

\* Python seq[:k]
SliceTo(seq, k) ==
    IF k >= 0 THEN SubSeq(seq, 1, Min(k, Len(seq)))
    ELSE SubSeq(seq, 1, Max(0, Len(seq) + k))

RECURSIVE SumLen(_)
SumLen(corpus) ==
    IF corpus = <<>> THEN 0 ELSE Len(Head(corpus)) + SumLen(Tail(corpus))

\* rank_bm25.BM25._initialize: vocabulary, document frequency nd[word], term
\* frequency of a word in one document.
Vocab(corpus) == UNION {Range(corpus[i]) : i \in DOMAIN corpus}
DocFreq(w, corpus) == Cardinality({i \in DOMAIN corpus : w \in Range(corpus[i])})
TermFreq(w, doc) == Cardinality({j \in DOMAIN doc : doc[j] = w})

\* BM25Okapi._calc_idf: idf = log(N - n + 0.5) - log(n + 0.5), whose sign is
\* that of N - 2n; a negative idf is replaced by epsilon * average_idf, and
\* the sign of the average is that of
\* prod(2N - 2n + 1) - prod(2n + 1) over the vocabulary.
IdfUpper(w, corpus) == 2 * Len(corpus) - 2 * DocFreq(w, corpus) + 1
IdfLower(w, corpus) == 2 * DocFreq(w, corpus) + 1

RECURSIVE ProdIdfUpper(_, _)
ProdIdfUpper(ws, corpus) ==
    IF ws = {} THEN 1
    ELSE LET w == CHOOSE x \in ws : TRUE
         IN IdfUpper(w, corpus) * ProdIdfUpper(ws \ {w}, corpus)

RECURSIVE ProdIdfLower(_, _)
ProdIdfLower(ws, corpus) ==
    IF ws = {} THEN 1
    ELSE LET w == CHOOSE x \in ws : TRUE
         IN IdfLower(w, corpus) * ProdIdfLower(ws \ {w}, corpus)

AverageIdfSign(corpus) ==
    Sign(ProdIdfUpper(Vocab(corpus), corpus) - ProdIdfLower(Vocab(corpus), corpus))
IdfSign(w, corpus) ==
    IF w \notin Vocab(corpus) THEN 0
    ELSE IF Len(corpus) - 2 * DocFreq(w, corpus) >= 0
         THEN Sign(Len(corpus) - 2 * DocFreq(w, corpus))
         ELSE AverageIdfSign(corpus)

\* BM25Okapi.get_scores for one query word w, k1 = 1.5, b = 0.75: the score of
\* document d is idf * f * 2.5 / (f + 1.5 * (0.25 + 0.75 * dl / avgdl)), that
\* is idf * ScoreNum / ScoreDen with avgdl = SumLen / N.
ScoreNum(w, doc, corpus) == 20 * TermFreq(w, doc) * SumLen(corpus)
ScoreDen(w, doc, corpus) ==
    8 * TermFreq(w, doc) * SumLen(corpus) + 3 * SumLen(corpus)
        + 9 * Len(doc) * Len(corpus)

\* score i >= score j, for scores sign * num[i] / den[i].
ScoreGeq(sign, num, den, i, j) ==
    IF sign = 0 THEN TRUE
    ELSE IF sign > 0 THEN num[i] * den[j] >= num[j] * den[i]
    ELSE num[i] * den[j] <= num[j] * den[i]

RECURSIVE Perms(_)
Perms(S) ==
    IF S = {} THEN {<<>>}
    ELSE UNION {{<<x>> \o p : p \in Perms(S \ {x})} : x \in S}

\* BM25Okapi(tokenized_corpus) raises ZeroDivisionError in _calc_idf when no
\* chunk holds a word (average_idf = idf_sum / len(self.idf)).
SortChunksRaises(chunks) ==
    chunks # <<>> /\ Vocab([i \in DOMAIN chunks |-> Tokenize(chunks[i])]) = {}

\* BM25Okapi(corpus).get_top_n(tq, chunks, n=len(chunks)): every chunk once,
\* by descending score; numpy's argsort leaves the order among equal scores
\* open.
SortTokenized(tq, corpus, chunks) ==
    LET \* the query holds at most one word; with none every score is 0
        sign == IF tq = <<>> THEN 0 ELSE IdfSign(tq[1], corpus)
        num == [i \in DOMAIN chunks |->
                   IF tq = <<>> THEN 0 ELSE ScoreNum(tq[1], corpus[i], corpus)]
        den == [i \in DOMAIN chunks |->
                   IF tq = <<>> THEN 1 ELSE ScoreDen(tq[1], corpus[i], corpus)]
    IN {[i \in DOMAIN chunks |-> chunks[p[i]]] :
            p \in {q \in Perms(DOMAIN chunks) :
                      \A a \in 1..(Len(chunks) - 1) :
                          ScoreGeq(sign, num, den, q[a], q[a + 1])}}

\* _sort_chunks: tokenize the query and the chunks, sort by BM25 score.
SortChunks(query, chunks) ==
    SortTokenized(Tokenize(query),
                  [i \in DOMAIN chunks |-> Tokenize(chunks[i])], chunks)

RankLocalPageUnpruned(page, query, top_k) ==
    IF ~TruthyList(page.chunks) THEN {page}
    ELSE {ReplaceChunks(page, Some(sorted)) :
             sorted \in SortChunks(query, page.chunks[1])}

\* _rank_local for one page: pages without chunks pass, the others keep the
\* first top_k of their sorted chunks.
RankLocalPage(page, query, top_k) ==
    IF ~TruthyList(page.chunks) THEN {page}
    ELSE {ReplaceChunks(page, Some(SliceTo(sorted, top_k))) :
             sorted \in SortChunks(query, page.chunks[1])}

RECURSIVE RankLocal(_, _, _)
\* _rank_local: the results it can return for the pages given.
RankLocal(pages, query, top_k) ==
    IF pages = <<>> THEN {<<>>}
    ELSE {<<p>> \o rest : p \in RankLocalPage(Head(pages), query, top_k),
                          rest \in RankLocal(Tail(pages), query, top_k)}

RankLocalRaises(pages) ==
    \E i \in DOMAIN pages :
        TruthyList(pages[i].chunks) /\ SortChunksRaises(pages[i].chunks[1])

RECURSIVE AllCandidates(_)
\* _rank_global, lines 92-95: the chunks of all pages, pooled in page order.
AllCandidates(pages) ==
    IF pages = <<>> THEN <<>>
    ELSE (IF TruthyList(Head(pages).chunks) THEN Head(pages).chunks[1] ELSE <<>>)
         \o AllCandidates(Tail(pages))

\* [c for c in page.chunks if c in winners_set]
RECURSIVE Surviving(_, _)
Surviving(chunks, winners_set) ==
    IF chunks = <<>> THEN <<>>
    ELSE (IF Head(chunks) \in winners_set THEN <<Head(chunks)>> ELSE <<>>)
         \o Surviving(Tail(chunks), winners_set)

ProjectWinnersFromPool(pages, winners_set) ==
    [i \in DOMAIN pages |->
        IF ~TruthyList(pages[i].chunks) THEN pages[i]
        ELSE ReplaceChunks(pages[i],
                 Some(Surviving(AllCandidates(pages), winners_set)))]

\* _rank_global, lines 103-112, for the global winners chosen.
ProjectWinners(pages, winners_set) ==
    [i \in DOMAIN pages |->
        IF ~TruthyList(pages[i].chunks) THEN pages[i]
        ELSE ReplaceChunks(pages[i],
                 Some(Surviving(pages[i].chunks[1], winners_set)))]

\* _rank_global: the results it can return.
RankGlobalListsOnly(pages, query, total_k) ==
    LET Lists(winners_set) ==
            [i \in DOMAIN pages |->
                ReplaceChunks(pages[i],
                    Some(Surviving(IF pages[i].chunks = None THEN <<>>
                                   ELSE pages[i].chunks[1], winners_set)))]
    IN IF AllCandidates(pages) = <<>> THEN {Lists({})}
       ELSE {Lists(Range(SliceTo(sorted, total_k))) :
                sorted \in SortChunks(query, AllCandidates(pages))}
RankGlobal(pages, query, total_k) ==
    IF AllCandidates(pages) = <<>> THEN {pages}
    ELSE {ProjectWinners(pages, Range(SliceTo(sorted, total_k))) :
             sorted \in SortChunks(query, AllCandidates(pages))}

RankGlobalRaises(pages) == SortChunksRaises(AllCandidates(pages))

\* Chunk lists of one page: None, or a list of at most `budget` chunk texts.
PageChunksUpTo(budget) ==
    {None} \cup {Some(c) : c \in UNION {[1..k -> ChunkTexts] : k \in 0..budget}}

ChunkCount(page) == IF page.chunks = None THEN 0 ELSE Len(page.chunks[1])

RECURSIVE RankInputs(_, _, _)
\* The page lists of n pages (urls from position `at` on) that hold at most
\* `budget` chunks in all.
RankInputs(n, at, budget) ==
    IF n = 0 THEN {<<>>}
    ELSE UNION {{<<WebPage(UrlPool[at], None, ch)>> \o rest :
                    rest \in RankInputs(n - 1, at + 1,
                                        budget - (IF ch = None THEN 0 ELSE Len(ch[1])))} :
                ch \in PageChunksUpTo(budget)}

RankInit ==
    /\ rank_bm25_available \in BOOLEAN
    /\ rk_result \in UNION {RankInputs(n, 1, MaxRankChunks) : n \in 0..MaxRankPages}
    /\ rk_query \in Queries
    /\ local_k \in 1..MaxK
    /\ global_k \in 1..MaxK
    /\ local_result = <<>>
    /\ final_result = <<>>
    /\ rkpc = "start"

RankIdle ==
    /\ rank_bm25_available = TRUE /\ rk_result = <<>> /\ rk_query = <<>>
    /\ local_k = 1 /\ global_k = 1
    /\ local_result = <<>> /\ final_result = <<>> /\ rkpc = "unranked"

\* rank, line 47: without the library or without pages the argument is
\* returned as it is.
RankPassThrough ==
    /\ rkpc = "start"
    /\ ~rank_bm25_available \/ rk_result = <<>>
    /\ final_result' = rk_result
    /\ rkpc' = "unranked"
    /\ UNCHANGED <<rank_bm25_available, rk_result, rk_query, local_k, global_k,
                   local_result,
                   notRankVars>>

\* rank: local pruning, then global pruning of what the local pass returned.
Rank ==
    /\ rkpc = "start"
    /\ rank_bm25_available /\ rk_result # <<>>
    /\ ~RankLocalRaises(rk_result)
    /\ \E loc \in RankLocal(rk_result, rk_query, local_k) :
          /\ ~RankGlobalRaises(loc)
          /\ \E fin \in RankGlobal(loc, rk_query, global_k) :
                /\ local_result' = loc
                /\ final_result' = fin
    /\ rkpc' = "done"
    /\ UNCHANGED <<rank_bm25_available, rk_result, rk_query, local_k, global_k,
                   notRankVars>>

\* rank: BM25Okapi raised in one of the passes; the exception leaves rank.
RankRaises ==
    /\ rkpc = "start"
    /\ rank_bm25_available /\ rk_result # <<>>
    /\ \/ RankLocalRaises(rk_result)
       \/ \E loc \in RankLocal(rk_result, rk_query, local_k) : RankGlobalRaises(loc)
    /\ rkpc' = "raised"
    /\ UNCHANGED <<rank_bm25_available, rk_result, rk_query, local_k, global_k,
                   local_result, final_result,
                   notRankVars>>

RankNext == RankPassThrough \/ Rank \/ RankRaises

\* ------------------------------------------------------------ CustomRAG
\* The page and result objects retrieve reads and writes.
WebPageContent(u, c, rc) == [url |-> u, content |-> c, relevant_chunks |-> rc]
SearchResult(rs, total, ms, ts) ==
    [results |-> rs, summary |-> None, total_results |-> total,
     search_time_ms |-> ms, timestamp |-> ts]

\* What the providers can hand back: page contents, chunk lists, and the
\* queries asked.
T_blank == <<" ">>
RagContents == {None} \cup {Some(c) : c \in Contents}
RagChunkLists == {<<>>, <<T_blank>>, <<T_sun>>, <<T_btc, T_btc, T_sun>>}
RagQueries == {<<>>, T_sun}

\* A call of a provider method, with the pages it was given.
Call(stage, arg) == [stage |-> stage, arg |-> arg]
StageNames(cl) == [i \in DOMAIN cl |-> cl[i].stage]

\* " [...] "
Separator == <<" ", "[", ".", ".", ".", "]", " ">>

\* sep.join(parts)
RECURSIVE Join(_, _)
Join(sep, parts) ==
    IF parts = <<>> THEN <<>>
    ELSE IF Len(parts) = 1 THEN parts[1]
    ELSE parts[1] \o sep \o Join(sep, Tail(parts))

\* rank_chunks: BM25 over chunk.split() and query.split().
RankChunks(chunks, query) ==
    IF chunks = <<>> \/ query = <<>> THEN {chunks}
    ELSE SortTokenized(SplitWords(query, <<>>),
                       [i \in DOMAIN chunks |-> SplitWords(chunks[i], <<>>)],
                       chunks)

\* BM25Okapi raises ZeroDivisionError when no chunk holds a word.
RankChunksRaises(chunks, query) ==
    /\ chunks # <<>> /\ query # <<>>
    /\ Vocab([i \in DOMAIN chunks |-> SplitWords(chunks[i], <<>>)]) = {}

\* `if not search_response.results`
ShortCircuitNever(results) == FALSE
ShortCircuit(results) == results = <<>>

\* _chunk_search_results: the first result from index `from` on that has
\* content, or Len + 1.
RECURSIVE NextWithContent(_, _)
NextWithContent(results, from) ==
    IF from > Len(results) THEN from
    ELSE IF TruthyStr(results[from].content) THEN from
    ELSE NextWithContent(results, from + 1)

RagInit ==
    /\ rag_query \in RagQueries
    /\ enable_chunking \in BOOLEAN
    /\ chunk_max_chunks_per_source \in 1..MaxK
    /\ rag_now = 0
    /\ start_time = 0
    /\ search_done_at = 0
    /\ search_response = None
    /\ ret = None
    /\ calls = <<>>
    /\ ci = 0
    /\ rpc = "start"

\* No retrieve call is under way.
RagIdle ==
    /\ rag_query = <<>> /\ enable_chunking = FALSE
    /\ chunk_max_chunks_per_source = 1
    /\ rag_now = 0 /\ start_time = 0 /\ search_done_at = 0
    /\ search_response = None /\ ret = None /\ calls = <<>> /\ ci = 0
    /\ rpc = "idle"

\* Time passes while retrieve awaits a provider.
Tick ==
    /\ rpc \in {"searching", "scraping", "chunk_text"}
    /\ rag_now < MaxTime
    /\ rag_now' = rag_now + 1
    /\ UNCHANGED <<rag_query, enable_chunking, chunk_max_chunks_per_source,
                   start_time, search_done_at, search_response, ret, calls,
                   ci, rpc, notRagVars>>

\* retrieve, lines 86-92: note the time, call search_provider.search.
RetrieveCall ==
    /\ rpc = "start"
    /\ start_time' = rag_now
    /\ calls' = Append(calls, Call("search", <<>>))
    /\ rpc' = "searching"
    /\ UNCHANGED <<rag_query, enable_chunking, chunk_max_chunks_per_source,
                   rag_now, search_done_at, search_response, ret, ci,
                   notRagVars>>

\* retrieve, lines 92-107: search returned; without results retrieve returns
\* an empty SearchResult, with results it calls the scraper.
SearchReturns ==
    /\ rpc = "searching"
    /\ \E n \in 0..MaxRagPages :
          LET results == [i \in 1..n |-> WebPageContent(UrlPool[i], None, None)]
              elapsed == rag_now - start_time
          IN /\ search_response' = Some(SearchResult(results, n, elapsed, rag_now))
             /\ IF ShortCircuit(results)
                THEN /\ ret' = Some(SearchResult(<<>>, 0, elapsed, rag_now))
                     /\ rpc' = "returned"
                     /\ UNCHANGED calls
                ELSE /\ calls' = Append(calls, Call("scrape", results))
                     /\ rpc' = "scraping"
                     /\ UNCHANGED ret
    /\ search_done_at' = rag_now
    /\ UNCHANGED <<rag_query, enable_chunking, chunk_max_chunks_per_source,
                   rag_now, start_time, ci, notRagVars>>

\* retrieve, lines 126-129: a provider raised, retrieve raises Exception.
RetrieveRaises(cl) ==
    /\ rpc' = "raised"
    /\ calls' = cl
    /\ UNCHANGED <<rag_query, enable_chunking, chunk_max_chunks_per_source,
                   rag_now, start_time, search_done_at, search_response, ret,
                   ci, notRagVars>>

SearchRaises == rpc = "searching" /\ RetrieveRaises(calls)
ScrapeRaises == rpc = "scraping" /\ RetrieveRaises(calls)
ChunkTextRaises == rpc = "chunk_text" /\ RetrieveRaises(calls)

\* retrieve, lines 110-124 and _chunk_search_results, lines 165-167: with the
\* results as they are now and the calls cl made so far, go on to the next
\* result with content and call chunk_text on it, or stamp the response and
\* return it.
Continue(results, from, cl) ==
    LET k == NextWithContent(results, from)
        resp == search_response[1]
    IN IF enable_chunking /\ k <= Len(results)
       THEN /\ search_response' = Some([resp EXCEPT !.results = results])
            /\ ci' = k
            /\ calls' = Append(cl, Call("chunk", <<results[k]>>))
            /\ rpc' = "chunk_text"
            /\ UNCHANGED ret
       ELSE /\ search_response' =
                   Some([resp EXCEPT !.results = results,
                                     !.search_time_ms = rag_now - start_time,
                                     !.timestamp = rag_now])
            /\ ret' = search_response'
            /\ calls' = cl
            /\ rpc' = "returned"
            /\ UNCHANGED ci

\* The scraper returned, having set the content of the results in place.
ScrapeReturns ==
    /\ rpc = "scraping"
    /\ \E cs \in [DOMAIN search_response[1].results -> RagContents] :
          Continue([i \in DOMAIN cs |->
                       [search_response[1].results[i] EXCEPT !.content = cs[i]]],
                   1, calls)
    /\ UNCHANGED <<rag_query, enable_chunking, chunk_max_chunks_per_source,
                   rag_now, start_time, search_done_at, notRagVars>>

\* _chunk_search_results, lines 167-171: chunk_text returned; the chunks are
\* ranked, cut to chunk_max_chunks_per_source and joined.
ChunkTextReturns ==
    /\ rpc = "chunk_text"
    /\ \E chunks \in RagChunkLists :
          /\ ~RankChunksRaises(chunks, rag_query)
          /\ \E ranked_chunks \in RankChunks(chunks, rag_query) :
                LET results == search_response[1].results
                    joined == Join(Separator,
                                   SliceTo(ranked_chunks, chunk_max_chunks_per_source))
                IN Continue([results EXCEPT ![ci].relevant_chunks = Some(joined)],
                            ci + 1,
                            Append(calls, Call("rank", <<results[ci]>>)))
    /\ UNCHANGED <<rag_query, enable_chunking, chunk_max_chunks_per_source,
                   rag_now, start_time, search_done_at, notRagVars>>

\* chunk_text returned chunks on which rank_chunks raises.
RankChunksRaise ==
    /\ rpc = "chunk_text"
    /\ \E chunks \in RagChunkLists : RankChunksRaises(chunks, rag_query)
    /\ RetrieveRaises(Append(calls, Call("rank", <<search_response[1].results[ci]>>)))

RagNext ==
    \/ Tick
    \/ RetrieveCall
    \/ SearchReturns
    \/ SearchRaises
    \/ ScrapeReturns
    \/ ScrapeRaises
    \/ ChunkTextReturns
    \/ ChunkTextRaises
    \/ RankChunksRaise

\* validate_parameters
ValidateParameters(size, overlap) ==
    IF size <= 0 THEN FALSE
    ELSE IF overlap < 0 THEN FALSE
    ELSE IF overlap >= size THEN FALSE
    ELSE TRUE

AvailInit ==
    /\ search_has_check \in BOOLEAN
    /\ search_available \in {"yes", "no", "raises"}
    /\ scraper_available \in BOOLEAN
    /\ chunk_size \in 0..2
    /\ chunk_overlap \in (0 - 1)..1
    /\ all_available = None
    /\ avpc = "start"

\* No check_availability call is under way.
AvailIdle ==
    /\ search_has_check = TRUE /\ search_available = "yes"
    /\ scraper_available = TRUE /\ chunk_size = 1 /\ chunk_overlap = 0
    /\ all_available = None /\ avpc = "idle"

\* check_availability: the search provider's probe (True without one), True
\* for the scraper, the chunker's validate_parameters; False on an exception.
CheckAvailability ==
    /\ avpc = "start"
    /\ LET raised == search_has_check /\ search_available = "raises"
           search_ok == IF search_has_check THEN search_available = "yes" ELSE TRUE
           scraper_ok == TRUE
           chunker_ok == ValidateParameters(chunk_size, chunk_overlap)
       IN all_available' =
              Some(IF raised THEN FALSE
                   ELSE search_ok /\ scraper_ok /\ chunker_ok)
    /\ avpc' = "done"
    /\ UNCHANGED <<search_has_check, search_available, scraper_available,
                   chunk_size, chunk_overlap, notAvailVars>>

AvailNext == CheckAvailability

\* ------------------------------------------ WebManager: context injection
\* A chat message; the content of message i of a request is Text(i), the
\* content of the injected message is the XML context.
Roles == {"system", "user", "assistant"}
Message(role, content) == [role |-> role, content |-> content]
Text(i) == [kind |-> "text", id |-> i]

\* _generate_xml_context: the <search_results> block over the pages.
GenerateXmlContext(pages) == [kind |-> "search_results", id |-> Len(pages)]

\* JSON documents: an object with its "messages" entry ("absent", "null" or a
\* "list") and its other entries, or a value that is no object.
JsonObject(mk, msgs) ==
    [type |-> "object", model |-> "m", messages_kind |-> mk, messages |-> msgs]
JsonArray ==
    [type |-> "array", model |-> "", messages_kind |-> "absent", messages |-> <<>>]

\* A byte string: the document it encodes and how it is laid out ("dumps" as
\* json.dumps writes it, "compact" without spaces), or "garbage".
Bytes(fmt, doc) == [fmt |-> fmt, doc |-> doc]
Formats == {"dumps", "compact"}

\* json.dumps(doc).encode("utf-8")
Dumps(doc) == Bytes("dumps", doc)
\* json.loads(body.decode("utf-8"))
LoadsRaises(body) == body.fmt = "garbage"
Loads(body) == body.doc

MessageLists ==
    UNION {{[i \in 1..k |-> Message(r[i], Text(i))] : r \in [1..k -> Roles]} :
           k \in 0..MaxMessages}

RequestBodies ==
    {Bytes("garbage", JsonArray), Bytes("compact", JsonArray)}
    \cup {Bytes(f, JsonObject(mk, <<>>)) : f \in Formats, mk \in {"absent", "null"}}
    \cup {Bytes(f, JsonObject("list", m)) : f \in Formats, m \in MessageLists}

\* str(i)
Digits == <<"1", "2", "3", "4", "5">>
Str(i) == Digits[i]

EmptyMap == [k \in {} |-> ""]
\* {str(i): res.url for i, res in enumerate(search_result.webpages, 1)}
Sources(pages) ==
    [k \in {Str(i) : i \in DOMAIN pages} |->
        pages[CHOOSE i \in DOMAIN pages : Str(i) = k].url]

\* request_data.get("messages", [])
GetMessages(doc) == IF doc.messages_kind = "absent" THEN <<>> ELSE doc.messages

\* Lines 494-498: the 0-based index of the last message with role "user", or
\* -1.
FirstUserIndex(messages) ==
    LET U == {i \in 0..(Len(messages) - 1) : messages[i + 1].role = "user"}
    IN IF U = {} THEN 0 - 1 ELSE CHOOSE i \in U : \A j \in U : i <= j
LastUserIndex(messages) ==
    LET U == {i \in 0..(Len(messages) - 1) : messages[i + 1].role = "user"}
    IN IF U = {} THEN 0 - 1 ELSE CHOOSE i \in U : \A j \in U : i >= j

\* list.insert(index, x) for 0 <= index <= len
ListInsert(list, index, x) ==
    SubSeq(list, 1, index) \o <<x>> \o SubSeq(list, index + 1, Len(list))

\* Lines 488-503: the messages with the context message put in.
InjectMessage(messages, web_context_message) ==
    IF LastUserIndex(messages) # 0 - 1
    THEN ListInsert(messages, LastUserIndex(messages), web_context_message)
    ELSE Append(messages, web_context_message)

InjectInit ==
    /\ request_body \in RequestBodies
    /\ inj_search_result \in
          {None} \cup {Some([i \in 1..n |-> WebPage(UrlPool[i], None, None)]) :
                          n \in 0..MaxInjPages}
    /\ out_body = request_body
    /\ sources = EmptyMap
    /\ ipc = "start"

\* No injection is under way.
InjectIdle ==
    /\ request_body = Bytes("garbage", JsonArray)
    /\ inj_search_result = None
    /\ out_body = request_body
    /\ sources = EmptyMap
    /\ ipc = "idle"

\* Line 474: `not search_result or not search_result.webpages`
NothingToInject(search_result) ==
    IF search_result = None THEN TRUE ELSE search_result[1] = <<>>

InjectionNeverRaises(body) == FALSE

\* Lines 484-485, 494-496: json.loads raises, or the value is no object, or
\* its "messages" is null: the statements in `try` raise.
InjectionRaises(body) ==
    IF LoadsRaises(body) THEN TRUE
    ELSE Loads(body).type # "object" \/ Loads(body).messages_kind = "null"

\* Lines 474-475: no pages, the body goes back as it came.
InjectSkipped ==
    /\ ipc = "start"
    /\ NothingToInject(inj_search_result)
    /\ out_body' = request_body
    /\ sources' = EmptyMap
    /\ ipc' = "skipped"
    /\ UNCHANGED <<request_body, inj_search_result, notInjVars>>

\* Lines 514-519: an exception in `try`, the body goes back as it came.
InjectFailed ==
    /\ ipc = "start"
    /\ ~NothingToInject(inj_search_result)
    /\ InjectionRaises(request_body)
    /\ out_body' = request_body
    /\ sources' = EmptyMap
    /\ ipc' = "failed"
    /\ UNCHANGED <<request_body, inj_search_result, notInjVars>>

\* Lines 477-512: the context message is put in and the body written anew.
Inject ==
    /\ ipc = "start"
    /\ ~NothingToInject(inj_search_result)
    /\ ~InjectionRaises(request_body)
    /\ LET request_data == Loads(request_body)
           web_context_message ==
               Message("system", GenerateXmlContext(inj_search_result[1]))
           messages == InjectMessage(GetMessages(request_data), web_context_message)
       IN out_body' = Dumps([request_data EXCEPT !.messages_kind = "list",
                                                 !.messages = messages])
    /\ sources' = Sources(inj_search_result[1])
    /\ ipc' = "injected"
    /\ UNCHANGED <<request_body, inj_search_result, notInjVars>>

InjectNext == InjectSkipped \/ InjectFailed \/ Inject

\* ------------------------------------------- WebManager: stage providers
\* The values of the provider enums of types.py.
RAGProviderEnum == {"tavily", "exa", "custom", "disabled"}
WebSearchProviderEnum == {"serper"}
WebScrapeProviderEnum == {"http"}
WebChunkProviderEnum == {"fixed", "recursive"}
WebRankProviderEnum == {"bm25"}

StageNamesAll == {"search", "scrape", "chunk", "rank"}

\* str.lower() on the configured names that occur.
LowerName(name) ==
    CASE name = "TAVILY" -> "tavily"
      [] name = "Recursive" -> "recursive"
      [] name = "None" -> "none"
      [] OTHER -> name

\* A provider instance: its class and which construction made it.
Provider(impl, id) == [impl |-> impl, id |-> id]

\* The class each enum value is built from.
ImplOf(enum) ==
    CASE enum = "serper" -> "SerperWebSearch"
      [] enum = "http" -> "HTTPWebScrape"
      [] enum = "fixed" -> "FixedSizeChunker"
      [] enum = "recursive" -> "RecursiveChunker"
      [] enum = "bm25" -> "BM25WebRank"
      [] enum = "tavily" -> "TavilyWebRAG"
      [] enum = "exa" -> "ExaWebRAG"
      [] enum = "custom" -> "CustomRAG"
      [] OTHER -> "?"

\* get_web_search_provider, lines 176-184: no name or an unknown name gives
\* no provider.
SearchProviderEnum(name) ==
    IF name = "" THEN None
    ELSE IF LowerName(name) \in WebSearchProviderEnum THEN Some(LowerName(name))
    ELSE None

\* get_web_scraper_provider, lines 211-225
ScrapeProviderEnum(name) ==
    IF LowerName(name) = "" \/ LowerName(name) = "none" THEN Some("http")
    ELSE IF LowerName(name) \in WebScrapeProviderEnum THEN Some(LowerName(name))
    ELSE Some("http")

ChunkProviderEnumNoFallback(name) ==
    IF LowerName(name) = "" \/ LowerName(name) = "none" THEN Some("recursive")
    ELSE IF LowerName(name) \in WebChunkProviderEnum THEN Some(LowerName(name))
    ELSE None

\* get_web_chunker_provider, lines 247-261
ChunkProviderEnum(name) ==
    IF LowerName(name) = "" \/ LowerName(name) = "none" THEN Some("recursive")
    ELSE IF LowerName(name) \in WebChunkProviderEnum THEN Some(LowerName(name))
    ELSE Some("recursive")

\* get_web_ranker_provider, lines 294-308
RankProviderEnum(name) ==
    IF LowerName(name) = "" \/ LowerName(name) = "none" THEN Some("bm25")
    ELSE IF LowerName(name) \in WebRankProviderEnum THEN Some(LowerName(name))
    ELSE Some("bm25")

\* The enum value a stage getter settles on under settings st, or None.
StageEnum(stage, st) ==
    CASE stage = "search" -> SearchProviderEnum(st.web_search_provider)
      [] stage = "scrape" -> ScrapeProviderEnum(st.web_scraper_provider)
      [] stage = "chunk" -> ChunkProviderEnum(st.web_chunker_provider)
      [] stage = "rank" -> RankProviderEnum(st.web_ranking_provider)

\* The getter reaches a constructor call.
StageConstructs(stage, cache, st) ==
    /\ cache = None
    /\ StageEnum(stage, st) # None
    /\ stage = "search" => st.serper_api_key

\* The constructor of class impl returns an instance.
CtorOk(impl, st) == impl \notin st.ctor_raises

\* get_web_search_provider .. get_web_ranker_provider: the value returned
\* (and kept in the cache) when the cache holds `cache` and a new instance
\* would get number id; a constructor that raises gives None.
GetStageProvider(stage, cache, st, id) ==
    IF cache # None THEN cache
    ELSE IF ~StageConstructs(stage, cache, st) THEN None
    ELSE IF CtorOk(ImplOf(StageEnum(stage, st)[1]), st)
         THEN Some(Provider(ImplOf(StageEnum(stage, st)[1]), id))
    ELSE None

\* Configured names: unset, a known name in some spelling, an unknown name.
RagNames == {"", "TAVILY", "exa", "custom", "disabled", "bogus"}
SearchNames == {"", "serper", "bogus"}
ScraperNames == {"", "None", "http", "bogus"}
ChunkerNames == {"", "fixed", "Recursive", "bogus"}
RankerNames == {"none", "bm25", "bogus"}

\* The settings and the installation: the names, which API keys are set, and
\* the classes whose import or constructor raises under them.
Settings(rag, key, search, skey, scraper, chunker, ranker, raising) ==
    [web_rag_provider |-> rag, rag_api_key |-> key,
     web_search_provider |-> search, serper_api_key |-> skey,
     web_scraper_provider |-> scraper, web_chunker_provider |-> chunker,
     web_ranking_provider |-> ranker, ctor_raises |-> raising]

\* WebManager.__init__: nothing is cached.
NoProviders ==
    [rag |-> None, search |-> None, scrape |-> None, chunk |-> None, rank |-> None]

\* A stage getter not called yet, and the record of a call.
NotCalled == [called |-> FALSE, result |-> None, ctor_raised |-> FALSE]
StageCall(r, raised) == [called |-> TRUE, result |-> r, ctor_raised |-> raised]

\* ------------------------------------------- WebManager.get_rag_provider
Callers == 1..MaxCallers
StageSeq == <<"search", "scrape", "chunk", "rank">>
NoStages == [search |-> None, scrape |-> None, chunk |-> None, rank |-> None]

\* `if not (search and scrape and chunk and rank)`
AllStagesButSearch(g) == g.scrape # None /\ g.chunk # None /\ g.rank # None
AllStages(g) == g.search # None /\ g.scrape # None /\ g.chunk # None /\ g.rank # None

\* Lines 58-67: the enum value of the configured RAG provider, None when
\* there is no name, the name is unknown, or RAG is disabled.
RagEnum(st) ==
    IF st.web_rag_provider = "" THEN None
    ELSE IF LowerName(st.web_rag_provider) \notin RAGProviderEnum THEN None
    ELSE IF LowerName(st.web_rag_provider) = "disabled" THEN None
    ELSE Some(LowerName(st.web_rag_provider))

\* The providers returned by the calls that have ended.
Returned == {result[j][1] : j \in {k \in Callers : cpc[k] = "done" /\ result[k] # None}}

\* The call of caller i ends and returns r.
Return(i, r) ==
    /\ cpc' = [cpc EXCEPT ![i] = "done"]
    /\ result' = [result EXCEPT ![i] = r]

\* Line 52: the call starts; a provider is cached and is returned.
CallCached(i) ==
    /\ cpc[i] = "idle"
    /\ providers.rag # None
    /\ seen' = [seen EXCEPT ![i] = Returned]
    /\ Return(i, providers.rag)
    /\ UNCHANGED <<settings, providers, next_id, stage_ret, cand, gidx,
                   gathered, built, checked, wrote, notMgrVars>>

\* Lines 55-67, 74-78, 96-100: nothing cached, and no provider configured or
\* no API key for it: None.
CallUnconfigured(i) ==
    /\ cpc[i] = "idle"
    /\ providers.rag = None
    /\ \/ RagEnum(settings) = None
       \/ /\ RagEnum(settings) \in {Some("tavily"), Some("exa")}
          /\ ~settings.rag_api_key
    /\ seen' = [seen EXCEPT ![i] = Returned]
    /\ Return(i, None)
    /\ UNCHANGED <<settings, providers, next_id, stage_ret, cand, gidx,
                   gathered, built, checked, wrote, notMgrVars>>

\* Lines 70-80, 93-102: Tavily or Exa is constructed and its
\* check_availability awaited.
CallAllInOne(i) ==
    /\ cpc[i] = "idle"
    /\ providers.rag = None
    /\ RagEnum(settings) \in {Some("tavily"), Some("exa")}
    /\ settings.rag_api_key
    /\ CtorOk(ImplOf(RagEnum(settings)[1]), settings)
    /\ seen' = [seen EXCEPT ![i] = Returned]
    /\ cand' = [cand EXCEPT ![i] = Some(Provider(ImplOf(RagEnum(settings)[1]), next_id))]
    /\ next_id' = next_id + 1
    /\ built' = [built EXCEPT ![i] = TRUE]
    /\ checked' = [checked EXCEPT ![i] = TRUE]
    /\ cpc' = [cpc EXCEPT ![i] = "avail"]
    /\ UNCHANGED <<settings, providers, stage_ret, gidx, gathered, result,
                   wrote, notMgrVars>>

\* Lines 89-91, 110-112: the import or the constructor raised: None.
CallAllInOneRaises(i) ==
    /\ cpc[i] = "idle"
    /\ providers.rag = None
    /\ RagEnum(settings) \in {Some("tavily"), Some("exa")}
    /\ settings.rag_api_key
    /\ ~CtorOk(ImplOf(RagEnum(settings)[1]), settings)
    /\ seen' = [seen EXCEPT ![i] = Returned]
    /\ Return(i, None)
    /\ UNCHANGED <<settings, providers, next_id, stage_ret, cand, gidx,
                   gathered, built, checked, wrote, notMgrVars>>

\* Lines 114-128: the four stage getters are handed to asyncio.gather.
CallCustom(i) ==
    /\ cpc[i] = "idle"
    /\ providers.rag = None
    /\ RagEnum(settings) = Some("custom")
    /\ seen' = [seen EXCEPT ![i] = Returned]
    /\ cpc' = [cpc EXCEPT ![i] = "gather"]
    /\ gidx' = [gidx EXCEPT ![i] = 1]
    /\ UNCHANGED <<settings, providers, next_id, stage_ret, cand, gathered,
                   result, built, checked, wrote, notMgrVars>>

\* One of the gathered stage getters runs (none of them awaits).
GatherStage(i) ==
    /\ cpc[i] = "gather" /\ gidx[i] <= Len(StageSeq)
    /\ LET stage == StageSeq[gidx[i]]
           r == GetStageProvider(stage, providers[stage], settings, next_id)
       IN /\ providers' = [providers EXCEPT ![stage] = r]
          /\ next_id' = IF providers[stage] = None /\ r # None
                        THEN next_id + 1 ELSE next_id
          /\ gathered' = [gathered EXCEPT ![i][stage] = r]
    /\ gidx' = [gidx EXCEPT ![i] = gidx[i] + 1]
    /\ UNCHANGED <<settings, stage_ret, cpc, cand, result, seen, built,
                   checked, wrote, notMgrVars>>

\* Lines 131-147: gather returned and a stage is missing: None.
GatherMissing(i) ==
    /\ cpc[i] = "gather" /\ gidx[i] > Len(StageSeq)
    /\ ~AllStages(gathered[i])
    /\ Return(i, None)
    /\ UNCHANGED <<settings, providers, next_id, stage_ret, cand, gidx,
                   gathered, seen, built, checked, wrote, notMgrVars>>

\* Lines 150-153: CustomRAG is constructed and its check_availability
\* awaited.
CustomConstruct(i) ==
    /\ cpc[i] = "gather" /\ gidx[i] > Len(StageSeq)
    /\ AllStages(gathered[i])
    /\ CtorOk(ImplOf("custom"), settings)
    /\ cand' = [cand EXCEPT ![i] = Some(Provider(ImplOf("custom"), next_id))]
    /\ next_id' = next_id + 1
    /\ built' = [built EXCEPT ![i] = TRUE]
    /\ checked' = [checked EXCEPT ![i] = TRUE]
    /\ cpc' = [cpc EXCEPT ![i] = "avail"]
    /\ UNCHANGED <<settings, providers, stage_ret, gidx, gathered, result,
                   seen, wrote, notMgrVars>>

\* Lines 160-162: the CustomRAG constructor raised: None.
CustomConstructRaises(i) ==
    /\ cpc[i] = "gather" /\ gidx[i] > Len(StageSeq)
    /\ AllStages(gathered[i])
    /\ ~CtorOk(ImplOf("custom"), settings)
    /\ Return(i, None)
    /\ UNCHANGED <<settings, providers, next_id, stage_ret, cand, gidx,
                   gathered, seen, built, checked, wrote, notMgrVars>>

\* Lines 85-87, 106-108, 158-159: check_availability answered true; the
\* instance is cached and returned.
AvailabilityYes(i) ==
    /\ cpc[i] = "avail"
    /\ providers' = [providers EXCEPT !.rag = cand[i]]
    /\ wrote' = [wrote EXCEPT ![i] = TRUE]
    /\ Return(i, cand[i])
    /\ UNCHANGED <<settings, next_id, stage_ret, cand, gidx, gathered, seen,
                   built, checked, notMgrVars>>

\* Lines 79-83, 153-157, 160-162: check_availability answered false or
\* raised: None.
AvailabilityNo(i) ==
    /\ cpc[i] = "avail"
    /\ Return(i, None)
    /\ UNCHANGED <<settings, providers, next_id, stage_ret, cand, gidx,
                   gathered, seen, built, checked, wrote, notMgrVars>>

\* A direct call of one of the stage getters.
GetStage(stage) ==
    LET r == GetStageProvider(stage, providers[stage], settings, next_id)
    IN /\ providers' = [providers EXCEPT ![stage] = r]
       /\ next_id' = IF providers[stage] = None /\ r # None
                     THEN next_id + 1 ELSE next_id
       /\ stage_ret' = [stage_ret EXCEPT ![stage] =
              StageCall(r, StageConstructs(stage, providers[stage], settings)
                           /\ r = None)]
       /\ UNCHANGED <<settings, cpc, cand, gidx, gathered, result, seen,
                      built, checked, wrote, notMgrVars>>

\* The settings a resolver run starts under: every RAG provider name with the
\* default stages, and the custom pipeline over the search settings.
Installations == {{}, {"TavilyWebRAG", "RecursiveChunker"}, {"CustomRAG"}}

ResolverSettings ==
    {Settings(r, k, "serper", TRUE, "", "", "none", x) :
        r \in RagNames, k \in BOOLEAN, x \in Installations}
    \cup {Settings("custom", FALSE, s, sk, "", "bogus", "none", x) :
             s \in SearchNames, sk \in BOOLEAN, x \in Installations}

AllSettings ==
    {Settings("", FALSE, s, sk, sc, ch, rk, x) :
        s \in SearchNames, sk \in BOOLEAN, sc \in ScraperNames,
        ch \in ChunkerNames, rk \in RankerNames,
        x \in {{}, {"RecursiveChunker"}, {"HTTPWebScrape", "BM25WebRank"}}}

\* A WebManager whose caches hold `cache` and on which `active` callers will
\* call get_rag_provider.
MgrStart(active, cache) ==
    /\ providers = cache
    /\ next_id = 1
    /\ stage_ret = [s \in StageNamesAll |-> NotCalled]
    /\ cpc = [i \in Callers |-> IF i \in active THEN "idle" ELSE "off"]
    /\ cand = [i \in Callers |-> None]
    /\ gidx = [i \in Callers |-> 0]
    /\ gathered = [i \in Callers |-> NoStages]
    /\ result = [i \in Callers |-> None]
    /\ seen = [i \in Callers |-> {}]
    /\ built = [i \in Callers |-> FALSE]
    /\ checked = [i \in Callers |-> FALSE]
    /\ wrote = [i \in Callers |-> FALSE]

\* A fresh WebManager.
MgrFresh(active) == MgrStart(active, NoProviders)

ResolverInit == settings \in ResolverSettings /\ MgrFresh(Callers)
StagesInit == settings \in AllSettings /\ MgrFresh({})
MgrIdle == settings = Settings("", FALSE, "", FALSE, "", "", "none", {}) /\ MgrFresh({})

GetRagProviderNext(i) ==
    \/ CallCached(i)
    \/ CallUnconfigured(i)
    \/ CallAllInOne(i)
    \/ CallAllInOneRaises(i)
    \/ CallCustom(i)
    \/ GatherStage(i)
    \/ GatherMissing(i)
    \/ CustomConstruct(i)
    \/ CustomConstructRaises(i)
    \/ AvailabilityYes(i)
    \/ AvailabilityNo(i)

ResolverNext == \E i \in Callers : GetRagProviderNext(i)
StagesNext == \E stage \in StageNamesAll : GetStage(stage)

\* ------------------------- WebManager.enhance_request_with_web_context
MaxEnhMessages == 2

\* Message contents: a text with something in it, a text of whitespace only,
\* and a list of content parts (no string).
ContentKinds == {"text", "blank", "parts"}
Content(kind, i) == [kind |-> kind, id |-> i]

\* content.strip(): the text without its surrounding whitespace, "" (None
\* here) for a blank text.
Strip(content) == IF content.kind = "blank" THEN None ELSE Some(Content("text", content.id))
\* A list has no strip(): the call raises.
StripRaises(content) == content.kind = "parts"

EnhMessageLists ==
    UNION {{[i \in 1..k |-> Message(r[i], Content(c[i], i))] :
               r \in [1..k -> Roles], c \in [1..k -> ContentKinds]} :
           k \in 0..MaxEnhMessages}

EnhBodies ==
    {Bytes("garbage", JsonArray), Bytes("compact", JsonArray)}
    \cup {Bytes("compact", JsonObject(mk, <<>>)) : mk \in {"absent", "null"}}
    \cup {Bytes("compact", JsonObject("list", m)) : m \in EnhMessageLists}

\* _extract_query_from_request_body: the stripped content of the last user
\* message; "" (None here) when there is none or anything raises.
ExtractQuery(body) ==
    IF LoadsRaises(body) THEN None
    ELSE IF Loads(body).type # "object" THEN None
    ELSE IF Loads(body).messages_kind = "null" THEN None
    ELSE LET messages == GetMessages(Loads(body))
             i == LastUserIndex(messages)
         IN IF i = 0 - 1 THEN None
            ELSE IF StripRaises(messages[i + 1].content) THEN None
            ELSE Strip(messages[i + 1].content)

\* _inject_web_context_into_request as a function of its arguments: the body
\* and the sources it returns.
InjectWebContext(body, search_result) ==
    IF NothingToInject(search_result) THEN [body |-> body, sources |-> EmptyMap]
    ELSE IF InjectionRaises(body) THEN [body |-> body, sources |-> EmptyMap]
    ELSE LET request_data == Loads(body)
             web_context_message ==
                 Message("system", GenerateXmlContext(search_result[1]))
             messages == InjectMessage(GetMessages(request_data), web_context_message)
         IN [body |-> Dumps([request_data EXCEPT !.messages_kind = "list",
                                                 !.messages = messages]),
             sources |-> Sources(search_result[1])]

\* Line 373: bool(search_result and search_result.webpages)
SuccessAlways(search_result) == TRUE
Success(search_result) ==
    IF search_result = None THEN FALSE ELSE search_result[1] # <<>>

\* The dict the call returns; sources is {} or a filled dict on the normal
\* paths and [] on the except path.
EnhanceResult(body, srcs, kind, success) ==
    [body |-> body, sources |-> srcs, sources_type |-> kind, success |-> success]

\* The caller whose get_rag_provider call the enhance call awaits.
EnhCaller == 1

\* The settings of an enhance call, and the cache it may find filled by an
\* earlier call.
EnhSettings ==
    {Settings(r, k, "serper", TRUE, "", "", "none", x) :
        r \in RagNames, k \in BOOLEAN, x \in Installations}
Warm(st) ==
    IF /\ RagEnum(st) \in {Some("tavily"), Some("exa")}
       /\ st.rag_api_key
       /\ CtorOk(ImplOf(RagEnum(st)[1]), st)
    THEN {[NoProviders EXCEPT !.rag = Some(Provider(ImplOf(RagEnum(st)[1]), 0))]}
    ELSE {}

EnhanceInit ==
    /\ settings \in EnhSettings
    /\ \E cache \in {NoProviders} \cup Warm(settings) : MgrStart({EnhCaller}, cache)
    /\ enh_body \in EnhBodies
    /\ epc = "provider"
    /\ enh_query = None
    /\ retrieve_raised = FALSE
    /\ enh_search_result = None
    /\ enh_ret = None

\* No enhance call is under way.
EnhanceIdle ==
    /\ enh_body = Bytes("garbage", JsonArray)
    /\ epc = "idle"
    /\ enh_query = None
    /\ retrieve_raised = FALSE
    /\ enh_search_result = None
    /\ enh_ret = None

\* Lines 341-345: get_rag_provider returned nothing.
EnhanceNoProvider ==
    /\ epc = "provider"
    /\ cpc[EnhCaller] = "done" /\ result[EnhCaller] = None
    /\ enh_ret' = Some(EnhanceResult(enh_body, EmptyMap, "dict", FALSE))
    /\ epc' = "done"
    /\ UNCHANGED <<enh_body, enh_query, retrieve_raised, enh_search_result,
                   mgrVars, notBothVars>>

\* Lines 348-351: no query in the body.
EnhanceNoQuery ==
    /\ epc = "provider"
    /\ cpc[EnhCaller] = "done" /\ result[EnhCaller] # None
    /\ ExtractQuery(enh_body) = None
    /\ enh_ret' = Some(EnhanceResult(enh_body, EmptyMap, "dict", FALSE))
    /\ epc' = "done"
    /\ UNCHANGED <<enh_body, enh_query, retrieve_raised, enh_search_result,
                   mgrVars, notBothVars>>

\* Lines 354-357: retrieve_context is awaited.
EnhanceRetrieve ==
    /\ epc = "provider"
    /\ cpc[EnhCaller] = "done" /\ result[EnhCaller] # None
    /\ ExtractQuery(enh_body) # None
    /\ enh_query' = ExtractQuery(enh_body)
    /\ epc' = "retrieve"
    /\ UNCHANGED <<enh_body, retrieve_raised, enh_search_result, enh_ret,
                   mgrVars, notBothVars>>

\* Lines 376-385: retrieve_context raised; the except clause answers.
RetrieveContextRaises ==
    /\ epc = "retrieve"
    /\ retrieve_raised' = TRUE
    /\ enh_ret' = Some(EnhanceResult(enh_body, EmptyMap, "list", FALSE))
    /\ epc' = "done"
    /\ UNCHANGED <<enh_body, enh_query, enh_search_result, mgrVars, notBothVars>>

\* Lines 360-374: retrieve_context returned a SearchResult; the context is
\* injected and the dict returned.
RetrieveContextReturns ==
    /\ epc = "retrieve"
    /\ \E n \in 0..MaxInjPages :
          LET search_result == Some([i \in 1..n |-> WebPage(UrlPool[i], None, None)])
              injected == InjectWebContext(enh_body, search_result)
          IN /\ enh_search_result' = search_result
             /\ enh_ret' = Some(EnhanceResult(injected.body, injected.sources,
                                              "dict", Success(search_result)))
    /\ epc' = "done"
    /\ UNCHANGED <<enh_body, enh_query, retrieve_raised, mgrVars, notBothVars>>

EnhanceNext ==
    \/ EnhanceNoProvider
    \/ EnhanceNoQuery
    \/ EnhanceRetrieve
    \/ RetrieveContextRaises
    \/ RetrieveContextReturns

\* ------------------------------------------------------ RecursiveChunker
MaxWords == 3
MaxChunkSize == 3

\* The characters str.strip() and \s take for whitespace, and [.!?].
SpaceChars == {" ", "\t", "\n"}
SentenceEnds == {".", "!", "?"}

\* str.lstrip(), str.rstrip(), str.strip()
RECURSIVE LStrip(_)
LStrip(t) ==
    IF t = <<>> THEN <<>>
    ELSE IF Head(t) \in SpaceChars THEN LStrip(Tail(t)) ELSE t
RECURSIVE RStrip(_)
RStrip(t) ==
    IF t = <<>> THEN <<>>
    ELSE IF t[Len(t)] \in SpaceChars THEN RStrip(SubSeq(t, 1, Len(t) - 1)) ELSE t
StripText(t) == RStrip(LStrip(t))

\* The text after its leading characters from set S.
RECURSIVE SkipChars(_, _)
SkipChars(t, S) ==
    IF t = <<>> THEN <<>>
    ELSE IF Head(t) \in S THEN SkipChars(Tail(t), S) ELSE t

\* re.sub(r"[ \t]+", " ", text)
RECURSIVE CollapseBlanks(_)
CollapseBlanks(t) ==
    IF t = <<>> THEN <<>>
    ELSE IF Head(t) \in {" ", "\t"}
         THEN <<" ">> \o CollapseBlanks(SkipChars(Tail(t), {" ", "\t"}))
    ELSE <<Head(t)>> \o CollapseBlanks(Tail(t))

\* Line 54: re.sub(r"[ \t]+", " ", text).strip()
Normalize(text) == StripText(CollapseBlanks(text))

\* text.split(sep) for a one-character sep; cur is the piece being read.
RECURSIVE SplitChar(_, _, _)
SplitChar(t, sep, cur) ==
    IF t = <<>> THEN <<cur>>
    ELSE IF Head(t) = sep THEN <<cur>> \o SplitChar(Tail(t), sep, <<>>)
    ELSE SplitChar(Tail(t), sep, Append(cur, Head(t)))

\* The length of the match of \n\s*\n at the start of t, 0 for no match: the
\* longest run of whitespace that starts and ends with a newline.
ParagraphBreakLen(t) ==
    LET run == Len(t) - Len(LStrip(t))
        Q == {q \in 2..run : t[q] = "\n"}
    IN IF t = <<>> THEN 0
       ELSE IF Head(t) # "\n" \/ Q = {} THEN 0
       ELSE CHOOSE q \in Q : \A r \in Q : r <= q

\* re.split(r"\n\s*\n", text)
RECURSIVE SplitParagraphs(_, _)
SplitParagraphs(t, cur) ==
    IF t = <<>> THEN <<cur>>
    ELSE IF ParagraphBreakLen(t) > 0
         THEN <<cur>> \o SplitParagraphs(SubSeq(t, ParagraphBreakLen(t) + 1, Len(t)), <<>>)
    ELSE SplitParagraphs(Tail(t), Append(cur, Head(t)))

\* re.split(r"(?<=[.!?]) +", text)
RECURSIVE SplitSentences(_, _)
SplitSentences(t, cur) ==
    IF t = <<>> THEN <<cur>>
    ELSE IF Head(t) = " " /\ cur # <<>> /\ cur[Len(cur)] \in SentenceEnds
         THEN <<cur>> \o SplitSentences(SkipChars(Tail(t), {" "}), <<>>)
    ELSE SplitSentences(Tail(t), Append(cur, Head(t)))

\* Line 67: the hierarchy of separators.
SeparatorsFinestFirst == <<" ", "SENTENCE_END", "\n", "\n\n">>
Separators == <<"\n\n", "\n", "SENTENCE_END", " ">>

\* Lines 101-109
SplitBy(current_sep, text) ==
    CASE current_sep = "SENTENCE_END" -> SplitSentences(text, <<>>)
      [] current_sep = "\n\n" -> SplitParagraphs(text, <<>>)
      [] current_sep = "\n" -> SplitChar(text, "\n", <<>>)
      [] OTHER -> SplitChar(text, " ", <<>>)

\* Line 111: [s for s in splits if s.strip()]
NonBlank(splits) == SelectSeq(splits, LAMBDA piece : StripText(piece) # <<>>)

\* _join_pieces
JoinPiecesKeepsFirst(pieces, separator_type) == pieces[1]
JoinPieces(pieces, separator_type) ==
    CASE separator_type = "\n\n" -> Join(<<"\n", "\n">>, pieces)
      [] separator_type = "\n" -> Join(<<"\n">>, pieces)
      [] OTHER -> Join(<<" ">>, pieces)

\* Lines 94-97: the hard cut into pieces of size characters.
RECURSIVE HardCut(_, _)
HardCut(text, size) ==
    IF text = <<>> THEN <<>>
    ELSE <<SubSeq(text, 1, Min(size, Len(text)))>>
         \o HardCut(SubSeq(text, size + 1, Len(text)), size)

\* The buffer as a finished chunk, if it holds anything.
Flush(buffer, current_sep) ==
    IF buffer # <<>> THEN <<JoinPieces(buffer, current_sep)>> ELSE <<>>

\* _split_recursive on the separators from `level` on; PackPieces is its loop
\* over the pieces (lines 121-143).
RECURSIVE SplitRecursive(_, _, _)
RECURSIVE PackPieces(_, _, _, _, _)
SplitRecursive(text, level, size) ==
    IF Len(text) <= size THEN <<text>>
    ELSE IF level > Len(Separators) THEN HardCut(text, size)
    ELSE LET splits == NonBlank(SplitBy(Separators[level], text))
         IN IF Len(splits) <= 1 THEN SplitRecursive(text, level + 1, size)
            ELSE PackPieces(splits, <<>>, 0, level, size)
PackPieces(splits, buffer, buffer_len, level, size) ==
    IF splits = <<>> THEN Flush(buffer, Separators[level])
    ELSE LET piece == Head(splits)
             potential_len ==
                 buffer_len + Len(piece) + (IF buffer # <<>> THEN 1 ELSE 0)
         IN IF Len(piece) > size
            THEN Flush(buffer, Separators[level])
                 \o SplitRecursive(piece, level + 1, size)
                 \o PackPieces(Tail(splits), <<>>, 0, level, size)
            ELSE IF potential_len <= size
            THEN PackPieces(Tail(splits), Append(buffer, piece), potential_len,
                            level, size)
            ELSE Flush(buffer, Separators[level])
                 \o PackPieces(Tail(splits), <<piece>>, Len(piece), level,
                               size)

\* Python s[-k:] for k > 0
LastChars(s, k) == SubSeq(s, Max(1, Len(s) - k + 1), Len(s))

\* Chunk i with the tail of the stitched chunk before it.
RECURSIVE Stitched(_, _, _)
Stitched(chunks, overlap, i) ==
    IF i = 1 THEN chunks[1]
    ELSE LastChars(Stitched(chunks, overlap, i - 1), overlap) \o chunks[i]

\* _apply_overlap: chunk i with the tail of chunk i-1 of the list given.
ApplyOverlapStitched(chunks, overlap) ==
    [i \in DOMAIN chunks |-> Stitched(chunks, overlap, i)]
ApplyOverlap(chunks, overlap) ==
    [i \in DOMAIN chunks |->
        IF i > 1 THEN LastChars(chunks[i - 1], overlap) \o chunks[i]
        ELSE chunks[i]]

\* chunk_text up to line 70: raw_chunks.
RawChunks(text, size) ==
    IF StripText(text) = <<>> THEN <<>>
    ELSE IF Len(Normalize(text)) <= size THEN <<Normalize(text)>>
    ELSE SplitRecursive(Normalize(text), 1, size)

\* chunk_text
ChunkText(text, size, overlap) ==
    LET raw_chunks == RawChunks(text, size)
    IN IF /\ StripText(text) # <<>>
          /\ Len(Normalize(text)) > size
          /\ overlap > 0 /\ Len(raw_chunks) > 1
       THEN ApplyOverlap(raw_chunks, overlap)
       ELSE raw_chunks

\* Texts: up to MaxWords words, word j written in letter j, with a gap of
\* blanks, tabs and newlines between two words; the empty and the blank text;
\* a word with blanks around it.
Letters == <<"a", "b", "c", "d", "e">>
WordShapes == {"x", "xx", "x."}
Word(shape, j) ==
    CASE shape = "x" -> <<Letters[j]>>
      [] shape = "xx" -> <<Letters[j], Letters[j]>>
      [] shape = "x." -> <<Letters[j], ".">>
Gaps == {<<" ">>, <<" ", "\t">>, <<"\n">>, <<"\n", "\n">>, <<"\n", " ", "\n">>}
RECURSIVE BuildText(_, _, _)
BuildText(shapes, gaps, j) ==
    IF j > Len(shapes) THEN <<>>
    ELSE (IF j > 1 THEN gaps[j - 1] ELSE <<>>) \o Word(shapes[j], j)
         \o BuildText(shapes, gaps, j + 1)
RcTexts ==
    {<<>>, <<" ">>, <<"\t", "a", " ", " ", "b", " ">>}
    \cup UNION {{BuildText(w, g, 1) : w \in [1..k -> WordShapes],
                                       g \in [1..(k - 1) -> Gaps]} :
                k \in 1..MaxWords}

RecursiveInit ==
    /\ rc_text \in RcTexts
    /\ rc_chunk_size \in 1..MaxChunkSize
    /\ rc_chunk_overlap \in 0..(rc_chunk_size - 1)
    /\ rc_raw = None
    /\ rc_chunks = None
    /\ rcpc = "start"

\* No chunk_text call is under way.
RecursiveIdle ==
    /\ rc_text = <<>>
    /\ rc_chunk_size = 1
    /\ rc_chunk_overlap = 0
    /\ rc_raw = None
    /\ rc_chunks = None
    /\ rcpc = "idle"

\* RecursiveChunker.chunk_text
RecursiveChunkText ==
    /\ rcpc = "start"
    /\ rc_raw' = Some(RawChunks(rc_text, rc_chunk_size))
    /\ rc_chunks' = Some(ChunkText(rc_text, rc_chunk_size, rc_chunk_overlap))
    /\ rcpc' = "done"
    /\ UNCHANGED <<rc_text, rc_chunk_size, rc_chunk_overlap, notRcVars>>

RecursiveNext == RecursiveChunkText

\* ------------------------------------------------------ FixedSizeChunker
MaxFixedLen == 7
MaxFixedSize == 4

\* Python text[start:end] for 0 <= start <= end
Slice(text, start, end) == SubSeq(text, start + 1, Min(end, Len(text)))

\* Line 72: len(remaining_text) < self.chunk_size * 0.3
TinyRemainderAlways(remaining_text, size) == TRUE
TinyRemainder(remaining_text, size) == 10 * Len(remaining_text) < 3 * size

\* Lines 63-89: the loop from `start` on with the chunks made so far; the
\* chunks and whether the remainder was appended to the last of them.
RECURSIVE SlidingWindow(_, _, _, _, _)
SlidingWindow(text, size, overlap, start, chunks) ==
    IF start >= Len(text) THEN [chunks |-> chunks, merged |-> FALSE]
    ELSE LET end == start + size
             remaining_text == Slice(text, start, Len(text))
             next == end - overlap
         IN IF /\ end > Len(text) /\ Len(chunks) > 0
               /\ TinyRemainder(remaining_text, size)
            THEN [chunks |-> [chunks EXCEPT ![Len(chunks)] = @ \o remaining_text],
                  merged |-> TRUE]
            ELSE SlidingWindow(text, size, overlap,
                               IF next <= 0 THEN size ELSE next,
                               Append(chunks, Slice(text, start, end)))

\* FixedSizeChunker.chunk_text
FixedChunkText(text, size, overlap) ==
    IF StripText(text) = <<>> THEN [chunks |-> <<>>, merged |-> FALSE]
    ELSE IF Len(text) <= size THEN [chunks |-> <<text>>, merged |-> FALSE]
    ELSE SlidingWindow(text, size, overlap, 0, <<>>)

\* Texts of letters and blanks.
FxTexts == UNION {[1..n -> {"a", " "}] : n \in 0..MaxFixedLen}

FixedInit ==
    /\ fx_text \in FxTexts
    /\ fx_chunk_size \in 1..MaxFixedSize
    /\ fx_chunk_overlap \in 0..(fx_chunk_size - 1)
    /\ fx_chunks = <<>>
    /\ fx_merged = FALSE
    /\ fxpc = "start"

\* No chunk_text call is under way.
FixedIdle ==
    /\ fx_text = <<>>
    /\ fx_chunk_size = 1
    /\ fx_chunk_overlap = 0
    /\ fx_chunks = <<>>
    /\ fx_merged = FALSE
    /\ fxpc = "idle"

\* FixedSizeChunker.chunk_text
FixedSizeChunkText ==
    /\ fxpc = "start"
    /\ fx_chunks' = FixedChunkText(fx_text, fx_chunk_size, fx_chunk_overlap).chunks
    /\ fx_merged' = FixedChunkText(fx_text, fx_chunk_size, fx_chunk_overlap).merged
    /\ fxpc' = "done"
    /\ UNCHANGED <<fx_text, fx_chunk_size, fx_chunk_overlap, notFxVars>>

FixedNext == FixedSizeChunkText

\* ------------------------------- FixedSizeChunker: the loop, step by step
\* Texts of distinct letters, the empty and the blank text.
Alphabet == <<"a", "b", "c", "d", "e", "f", "g", "h", "i", "j">>
LpTexts == {<<>>, <<" ">>} \cup {SubSeq(Alphabet, 1, n) : n \in 1..MaxFixedLen}

\* The loop is cut off after this many chunks; a text of MaxFixedLen
\* characters gives fewer whenever the cursor advances.
MaxLoopChunks == MaxFixedLen + 1

\* chunk_size and chunk_overlap are plain attributes read at lines 64 and 85;
\* only the constructor validates them (lines 33-34).
LoopInit ==
    /\ lp_text \in LpTexts
    /\ lp_chunk_size \in 1..MaxFixedSize
    /\ lp_chunk_overlap \in 0..MaxFixedSize
    /\ lp_start = 0
    /\ lp_chunks = <<>>
    /\ lppc = "start"

\* No chunk_text call is under way.
LoopIdle ==
    /\ lp_text = <<>>
    /\ lp_chunk_size = 1
    /\ lp_chunk_overlap = 0
    /\ lp_start = 0
    /\ lp_chunks = <<>>
    /\ lppc = "idle"

\* Lines 47-49
LoopEmptyText ==
    /\ lppc = "start"
    /\ StripText(lp_text) = <<>>
    /\ lppc' = "done"
    /\ UNCHANGED <<lp_text, lp_chunk_size, lp_chunk_overlap, lp_start,
                   lp_chunks, notLoopVars>>

\* Lines 54-58
LoopSingleChunk ==
    /\ lppc = "start"
    /\ StripText(lp_text) # <<>>
    /\ Len(lp_text) <= lp_chunk_size
    /\ lp_chunks' = <<lp_text>>
    /\ lppc' = "done"
    /\ UNCHANGED <<lp_text, lp_chunk_size, lp_chunk_overlap, lp_start,
                   notLoopVars>>

\* Lines 60-61
LoopEnter ==
    /\ lppc = "start"
    /\ StripText(lp_text) # <<>>
    /\ Len(lp_text) > lp_chunk_size
    /\ lp_start' = 0
    /\ lp_chunks' = <<>>
    /\ lppc' = "loop"
    /\ UNCHANGED <<lp_text, lp_chunk_size, lp_chunk_overlap, notLoopVars>>

\* Lines 67-73: the remainder is appended to the last chunk.
MergesRemainder(text, size, start, chunks) ==
    /\ start + size > Len(text)
    /\ Len(chunks) > 0
    /\ TinyRemainder(Slice(text, start, Len(text)), size)

\* Lines 85-89: the next position of the cursor.
NextStart(start, size, overlap) ==
    IF start + size - overlap <= 0 THEN size ELSE start + size - overlap

\* Lines 74-78
LoopMergeRemainder ==
    /\ lppc = "loop"
    /\ lp_start < Len(lp_text)
    /\ MergesRemainder(lp_text, lp_chunk_size, lp_start, lp_chunks)
    /\ lp_chunks' =
           [lp_chunks EXCEPT ![Len(lp_chunks)] =
               @ \o Slice(lp_text, lp_start, Len(lp_text))]
    /\ lppc' = "done"
    /\ UNCHANGED <<lp_text, lp_chunk_size, lp_chunk_overlap, lp_start,
                   notLoopVars>>

\* Lines 81-89
LoopAppendChunk ==
    /\ lppc = "loop"
    /\ lp_start < Len(lp_text)
    /\ ~MergesRemainder(lp_text, lp_chunk_size, lp_start, lp_chunks)
    /\ Len(lp_chunks) < MaxLoopChunks
    /\ lp_chunks' =
           Append(lp_chunks, Slice(lp_text, lp_start, lp_start + lp_chunk_size))
    /\ lp_start' = NextStart(lp_start, lp_chunk_size, lp_chunk_overlap)
    /\ UNCHANGED <<lp_text, lp_chunk_size, lp_chunk_overlap, lppc, notLoopVars>>

\* Lines 63, 91-92
LoopExit ==
    /\ lppc = "loop"
    /\ lp_start >= Len(lp_text)
    /\ lppc' = "done"
    /\ UNCHANGED <<lp_text, lp_chunk_size, lp_chunk_overlap, lp_start,
                   lp_chunks, notLoopVars>>

LoopNext ==
    \/ LoopEmptyText
    \/ LoopSingleChunk
    \/ LoopEnter
    \/ LoopMergeRemainder
    \/ LoopAppendChunk
    \/ LoopExit

\* ----------------------------------------- DefaultWebScraper.scrape_url
\* Line 81: urls of this length or more are not fetched.
UrlLimit == 200
\* Line 94: the largest Content-Length accepted.
MaxBodyBytes == 5000000

\* A header value is a sequence of pieces of text, so that "starts with" is
\* a prefix of pieces; str.lower() piece by piece.
LowerPiece(piece) ==
    CASE piece = "TEXT/" -> "text/"
      [] piece = "HTML" -> "html"
      [] OTHER -> piece
LowerHeader(value) == [i \in DOMAIN value |-> LowerPiece(value[i])]
StartsWith(value, prefix) ==
    Len(value) >= Len(prefix) /\ SubSeq(value, 1, Len(prefix)) = prefix

\* response.headers.get(name, default)
HeaderGet(header, default) == IF header = None THEN default ELSE header[1]

\* Lines 88-89: the content-type check passes.
TextContentTypeCaseSensitive(header) ==
    LET content_type == HeaderGet(header, <<>>)
    IN \/ StartsWith(content_type, <<"text/", "html">>)
       \/ StartsWith(content_type, <<"text/", "plain">>)
TextContentType(header) ==
    LET content_type == LowerHeader(HeaderGet(header, <<>>))
    IN \/ StartsWith(content_type, <<"text/", "html">>)
       \/ StartsWith(content_type, <<"text/", "plain">>)

\* A Content-Length header: digits with their value, or other text.
Number(n) == [digits |-> TRUE, n |-> n]
NotANumber == [digits |-> FALSE, n |-> 0]
\* Line 93: int(...) of the header, 0 without one; int raises ValueError on
\* text that is no number.
IntRaises(header) == header # None /\ ~header[1].digits
ContentLength(header) == HeaderGet(header, Number(0)).n

\* Responses: content types, declared lengths and body sizes around the limit.
ContentTypes ==
    {None,
     Some(<<"text/", "html">>), Some(<<"text/", "html", "; charset=utf-8">>),
     Some(<<"TEXT/", "HTML">>), Some(<<"text/", "plain">>),
     Some(<<"text/", "xml">>), Some(<<"application/", "xml">>),
     Some(<<"application/", "xhtml", "+", "xml">>),
     Some(<<"application/", "json">>), Some(<<"image/", "png">>)}
BodySizes == {0, 1, MaxBodyBytes, MaxBodyBytes + 1}
ContentLengths == {None, Some(NotANumber)} \cup {Some(Number(n)) : n \in BodySizes}

FetchInit ==
    /\ url_len \in {UrlLimit - 1, UrlLimit}
    /\ header_content_type \in ContentTypes
    /\ header_content_length \in ContentLengths
    /\ body_size \in BodySizes
    /\ body_has_null \in {b \in BOOLEAN : b => body_size > 0}
    /\ buffered = 0
    /\ rejected = "no"
    /\ scrape_ret = None
    /\ ftpc = "start"

\* No scrape_url call is under way.
FetchIdle ==
    /\ url_len = 0
    /\ header_content_type = None
    /\ header_content_length = None
    /\ body_size = 0
    /\ body_has_null = FALSE
    /\ buffered = 0
    /\ rejected = "no"
    /\ scrape_ret = None
    /\ ftpc = "idle"

\* Lines 109-130: whatever was raised, scrape_url logs it and returns None.
FetchFails(at, why) ==
    /\ ftpc = at
    /\ rejected' = why
    /\ scrape_ret' = None
    /\ ftpc' = "done"
    /\ UNCHANGED <<url_len, header_content_type, header_content_length,
                   body_size, body_has_null, buffered, notFetchVars>>

\* Lines 81-82
FetchUrlTooLong == url_len >= UrlLimit /\ FetchFails("start", "url")

\* Line 85: client.get raises (timeout, connection error).
FetchGetRaises == url_len < UrlLimit /\ FetchFails("start", "request")

\* Line 85: client.get is no streaming request: it returns when the whole body
\* of the response has been read into memory.
FetchGet ==
    /\ ftpc = "start"
    /\ url_len < UrlLimit
    /\ buffered' = body_size
    /\ ftpc' = "response"
    /\ UNCHANGED <<url_len, header_content_type, header_content_length,
                   body_size, body_has_null, rejected, scrape_ret,
                   notFetchVars>>

\* Lines 88-90
FetchRejectContentType ==
    /\ ~TextContentType(header_content_type)
    /\ FetchFails("response", "content-type")

\* Lines 88-89: the check passes.
FetchContentTypeOk ==
    /\ ftpc = "response"
    /\ TextContentType(header_content_type)
    /\ ftpc' = "typed"
    /\ UNCHANGED <<url_len, header_content_type, header_content_length,
                   body_size, body_has_null, buffered, rejected, scrape_ret,
                   notFetchVars>>

\* Line 93: the Content-Length header is no number.
FetchContentLengthRaises ==
    /\ IntRaises(header_content_length)
    /\ FetchFails("typed", "content-length")

\* Lines 93-95
FetchRejectOversized ==
    /\ ~IntRaises(header_content_length)
    /\ ContentLength(header_content_length) > MaxBodyBytes
    /\ FetchFails("typed", "oversized")

\* Lines 98-100: aread hands out the body; a null byte rejects it.
FetchRejectBinary ==
    /\ ~IntRaises(header_content_length)
    /\ ContentLength(header_content_length) <= MaxBodyBytes
    /\ body_has_null
    /\ FetchFails("typed", "binary")

\* Lines 98-107: the body is decoded and extract_content gives the content.
FetchExtract ==
    /\ ftpc = "typed"
    /\ ~IntRaises(header_content_length)
    /\ ContentLength(header_content_length) <= MaxBodyBytes
    /\ ~body_has_null
    /\ \E c \in Contents : scrape_ret' = Some(c)
    /\ ftpc' = "done"
    /\ UNCHANGED <<url_len, header_content_type, header_content_length,
                   body_size, body_has_null, buffered, rejected, notFetchVars>>

FetchNext ==
    \/ FetchUrlTooLong
    \/ FetchGetRaises
    \/ FetchGet
    \/ FetchRejectContentType
    \/ FetchContentTypeOk
    \/ FetchContentLengthRaises
    \/ FetchRejectOversized
    \/ FetchRejectBinary
    \/ FetchExtract

\* ------------------------------------ DefaultWebScraper.extract_content
\* Lines 167-173: the extractors in order of preference.
ExtractorOrder == <<"Trafilatura", "Goose3", "Newspaper">>
ExtractorNames == {"Trafilatura", "Goose3", "Newspaper"}
Extractors(available) == SelectSeq(ExtractorOrder, LAMBDA name : name \in available)

\* What a call of an extractor does: it raises, or returns None, a dict with
\* an "error" key, or a dict with the content it found.
ExtractorResult(kind, content) == [kind |-> kind, content |-> content]
ExtractedTexts == {<<>>, <<"\n">>, <<" ", "h", "i", "\n">>, <<"o", "k">>}
ExtractorResults ==
    {ExtractorResult(k, <<>>) : k \in {"raises", "none", "error"}}
    \cup {ExtractorResult("dict", c) : c \in ExtractedTexts}

\* Line 183: result and "error" not in result and result.get("content")
Usable(extracted) == extracted.kind = "dict" /\ extracted.content # <<>>

HtmlPages == {<<>>, <<"<", "p", ">", "h", "i">>}

ExtractInit ==
    /\ ex_raw_html \in HtmlPages
    /\ ex_available \in SUBSET ExtractorNames
    /\ ex_outcome \in [ExtractorNames -> ExtractorResults]
    /\ ex_idx = 1
    /\ ex_tried = <<>>
    /\ ex_ret = None
    /\ expc = "loop"

\* No extract_content call is under way.
ExtractIdle ==
    /\ ex_raw_html = <<>>
    /\ ex_available = {}
    /\ ex_outcome = [name \in ExtractorNames |-> ExtractorResult("none", <<>>)]
    /\ ex_idx = 1
    /\ ex_tried = <<>>
    /\ ex_ret = None
    /\ expc = "idle"

\* The extractor the loop is at.
CurrentExtractor == Extractors(ex_available)[ex_idx]
InLoop == expc = "loop" /\ ex_idx <= Len(Extractors(ex_available))

\* Lines 192-196: the extractor raised; on to the next one.
ExtractorRaises ==
    /\ InLoop
    /\ ex_outcome[CurrentExtractor].kind = "raises"
    /\ ex_tried' = Append(ex_tried, CurrentExtractor)
    /\ ex_idx' = ex_idx + 1
    /\ UNCHANGED <<ex_raw_html, ex_available, ex_outcome, ex_ret, expc, notExVars>>

\* Line 183: the extractor returned nothing to use; on to the next one.
ExtractorRejected ==
    /\ InLoop
    /\ ex_outcome[CurrentExtractor].kind # "raises"
    /\ ~Usable(ex_outcome[CurrentExtractor])
    /\ ex_tried' = Append(ex_tried, CurrentExtractor)
    /\ ex_idx' = ex_idx + 1
    /\ UNCHANGED <<ex_raw_html, ex_available, ex_outcome, ex_ret, expc, notExVars>>

\* Lines 183-190: the extractor returned content; it is stripped and
\* returned.
ExtractorAccepted ==
    /\ InLoop
    /\ Usable(ex_outcome[CurrentExtractor])
    /\ ex_tried' = Append(ex_tried, CurrentExtractor)
    /\ ex_ret' = Some(StripText(ex_outcome[CurrentExtractor].content))
    /\ expc' = "done"
    /\ UNCHANGED <<ex_raw_html, ex_available, ex_outcome, ex_idx, notExVars>>

\* Lines 198-200: no extractor left; the raw HTML is returned.
FallbackRawHtml ==
    /\ expc = "loop" /\ ex_idx > Len(Extractors(ex_available))
    /\ ex_ret' = Some(ex_raw_html)
    /\ expc' = "done"
    /\ UNCHANGED <<ex_raw_html, ex_available, ex_outcome, ex_idx, ex_tried,
                   notExVars>>

ExtractNext ==
    \/ ExtractorRaises
    \/ ExtractorRejected
    \/ ExtractorAccepted
    \/ FallbackRawHtml

\* ------------------------------------------------------- specifications
\* One scrape_webpages call followed by chunk_search_results.
Init == PagesInit /\ RankIdle /\ RagIdle /\ AvailIdle /\ InjectIdle /\ MgrIdle
    /\ EnhanceIdle /\ RecursiveIdle /\ FixedIdle /\ ExtractIdle /\ LoopIdle
    /\ FetchIdle
Next == PagesNext
Spec == Init /\ [][Next]_vars

\* One BM25WebRank.rank call.
InitRank == RankInit /\ PagesIdle /\ RagIdle /\ AvailIdle /\ InjectIdle /\ MgrIdle
    /\ EnhanceIdle /\ RecursiveIdle /\ FixedIdle /\ ExtractIdle /\ LoopIdle
    /\ FetchIdle
NextRank == RankNext
SpecRank == InitRank /\ [][NextRank]_vars

\* One CustomRAG.retrieve call.
InitRag == RagInit /\ PagesIdle /\ RankIdle /\ AvailIdle /\ InjectIdle /\ MgrIdle
    /\ EnhanceIdle /\ RecursiveIdle /\ FixedIdle /\ ExtractIdle /\ LoopIdle
    /\ FetchIdle
NextRag == RagNext
SpecRag == InitRag /\ [][NextRag]_vars

\* One CustomRAG.check_availability call.
InitAvail == AvailInit /\ PagesIdle /\ RankIdle /\ RagIdle /\ InjectIdle /\ MgrIdle
    /\ EnhanceIdle /\ RecursiveIdle /\ FixedIdle /\ ExtractIdle /\ LoopIdle
    /\ FetchIdle
NextAvail == AvailNext
SpecAvail == InitAvail /\ [][NextAvail]_vars

\* One WebManager._inject_web_context_into_request call.
InitInject == InjectInit /\ PagesIdle /\ RankIdle /\ RagIdle /\ AvailIdle /\ MgrIdle
    /\ EnhanceIdle /\ RecursiveIdle /\ FixedIdle /\ ExtractIdle /\ LoopIdle
    /\ FetchIdle
NextInject == InjectNext
SpecInject == InitInject /\ [][NextInject]_vars

\* Concurrent get_rag_provider calls on one fresh WebManager.
InitResolver ==
    ResolverInit /\ PagesIdle /\ RankIdle /\ RagIdle /\ AvailIdle /\ InjectIdle
    /\ EnhanceIdle /\ RecursiveIdle /\ FixedIdle /\ ExtractIdle /\ LoopIdle
    /\ FetchIdle
NextResolver == ResolverNext
SpecResolver == InitResolver /\ [][NextResolver]_vars

\* One enhance_request_with_web_context call with its get_rag_provider call.
InitEnhance ==
    EnhanceInit /\ PagesIdle /\ RankIdle /\ RagIdle /\ AvailIdle /\ InjectIdle
    /\ RecursiveIdle /\ FixedIdle /\ ExtractIdle /\ LoopIdle /\ FetchIdle
NextEnhance == GetRagProviderNext(EnhCaller) \/ EnhanceNext
SpecEnhance == InitEnhance /\ [][NextEnhance]_vars

\* One RecursiveChunker.chunk_text call.
InitRecursive ==
    RecursiveInit /\ PagesIdle /\ RankIdle /\ RagIdle /\ AvailIdle /\ InjectIdle
    /\ MgrIdle /\ EnhanceIdle /\ FixedIdle /\ ExtractIdle /\ LoopIdle
    /\ FetchIdle
NextRecursive == RecursiveNext
SpecRecursive == InitRecursive /\ [][NextRecursive]_vars

\* One FixedSizeChunker.chunk_text call.
InitFixed ==
    FixedInit /\ PagesIdle /\ RankIdle /\ RagIdle /\ AvailIdle /\ InjectIdle
    /\ MgrIdle /\ EnhanceIdle /\ RecursiveIdle /\ ExtractIdle /\ LoopIdle
    /\ FetchIdle
NextFixed == FixedNext
SpecFixed == InitFixed /\ [][NextFixed]_vars

\* One scrape_webpages call up to its return, with the event loop running
\* every task that can run and every scrape_url call coming to an end.
ScrapeUrlEnds(i) == ScrapeOk(i) \/ ScrapeRejected(i) \/ ScrapeRaised(i)
NextScrape ==
    \/ \E i \in Tasks : Acquire(i)
    \/ \E i \in Tasks : ScrapeOk(i)
    \/ \E i \in Tasks : ScrapeRejected(i)
    \/ \E i \in Tasks : ScrapeRaised(i)
    \/ ScrapeReturn
SpecScrapeLive ==
    /\ Init /\ [][NextScrape]_vars
    /\ WF_vars(\E i \in Tasks : Acquire(i))
    /\ WF_vars(\E i \in Tasks : ScrapeUrlEnds(i))
    /\ WF_vars(ScrapeReturn)

\* One scrape_webpages call that can be cancelled while it runs.
NextCancel ==
    \/ \E i \in Tasks : Acquire(i)
    \/ \E i \in Tasks : ScrapeOk(i)
    \/ \E i \in Tasks : ScrapeRejected(i)
    \/ \E i \in Tasks : ScrapeRaised(i)
    \/ ScrapeReturn
    \/ CancelSignal
    \/ \E i \in Tasks : FetchCancelled(i)
    \/ ScrapeCancelled
SpecCancel == Init /\ [][NextCancel]_vars

\* One FixedSizeChunker.chunk_text call, one loop iteration per step.
InitLoop ==
    LoopInit /\ PagesIdle /\ RankIdle /\ RagIdle /\ AvailIdle /\ InjectIdle
    /\ MgrIdle /\ EnhanceIdle /\ RecursiveIdle /\ ExtractIdle /\ FixedIdle
    /\ FetchIdle
NextLoop == LoopNext
SpecLoop == InitLoop /\ [][NextLoop]_vars

\* One DefaultWebScraper.scrape_url call.
InitFetch ==
    FetchInit /\ PagesIdle /\ RankIdle /\ RagIdle /\ AvailIdle /\ InjectIdle
    /\ MgrIdle /\ EnhanceIdle /\ RecursiveIdle /\ ExtractIdle /\ FixedIdle
    /\ LoopIdle
NextFetch == FetchNext
SpecFetch == InitFetch /\ [][NextFetch]_vars

\* One DefaultWebScraper.extract_content call.
InitExtract ==
    ExtractInit /\ PagesIdle /\ RankIdle /\ RagIdle /\ AvailIdle /\ InjectIdle
    /\ MgrIdle /\ EnhanceIdle /\ RecursiveIdle /\ FixedIdle /\ LoopIdle
    /\ FetchIdle
NextExtract == ExtractNext
SpecExtract == InitExtract /\ [][NextExtract]_vars

\* Direct calls of the stage getters on one fresh WebManager.
InitStages ==
    StagesInit /\ PagesIdle /\ RankIdle /\ RagIdle /\ AvailIdle /\ InjectIdle
    /\ EnhanceIdle /\ RecursiveIdle /\ FixedIdle /\ ExtractIdle /\ LoopIdle
    /\ FetchIdle
NextStages == StagesNext
SpecStages == InitStages /\ [][NextStages]_vars

\* --------------------------------------------------- scraper properties
InFlight == Cardinality({i \in Tasks : tpc[i] = "fetching"})
Failed(i) == fetched[i] \in {"rejected", "raised"}

\* C1: when scrape_webpages has returned, it returned one page per input
\* page; a page whose scrape_url raised or was rejected comes back as it went
\* in, with content None, and every other page ran to its end and carries the
\* content its own scrape_url produced.
C1_IsolatedFailure ==
    phase # "scrape" =>
        /\ Len(scraped) = Len(webpages)
        /\ \A i \in Tasks :
              /\ fetched[i] \in {"ok", "rejected", "raised"}
              /\ Failed(i) =>
                    scraped[i] = webpages[i] /\ scraped[i].content = None
              /\ fetched[i] = "ok" =>
                    /\ scraped[i].content # None
                    /\ ReplaceContent(scraped[i], None) = webpages[i]

\* A batch of three pages returned where the middle one raised and the other
\* two were fetched.
C1_Witness ==
    /\ phase = "chunk" /\ Len(webpages) = 3
    /\ fetched = <<"ok", "raised", "ok">>
    /\ doneOrder[1] = 2

\* C2: never more than max_concurrent scrape_url calls are in flight.
C2_BoundedInFlight == InFlight <= max_concurrent

\* Every permit is taken while a further page waits for one.
C2_Witness ==
    /\ InFlight = max_concurrent
    /\ waiters # <<>>
    /\ doneOrder # <<>>

\* C3: the outputs of scrape_webpages and of chunk_search_results carry, at
\* every index, the URL of the input page at that index.
C3_OrderPreserved ==
    /\ phase # "scrape" =>
          /\ Len(scraped) = Len(webpages)
          /\ \A i \in 1..Len(scraped) : scraped[i].url = webpages[i].url
    /\ phase = "end" =>
          /\ Len(chunked) = Len(webpages)
          /\ \A i \in 1..Len(chunked) : chunked[i].url = webpages[i].url

\* Both stages returned although their tasks finished out of input order.
C3_Witness ==
    /\ phase = "end" /\ Len(webpages) >= 2
    /\ doneOrder[1] # 1
    /\ chunkOrder[1] # 1

\* ---------------------------------------------------- ranker properties
RECURSIVE TotalChunks(_)
TotalChunks(pages) ==
    IF pages = <<>> THEN 0 ELSE ChunkCount(Head(pages)) + TotalChunks(Tail(pages))

\* sub is a subsequence of seq: its elements occur in seq in the same order.
RECURSIVE IsSubsequence(_, _)
IsSubsequence(sub, seq) ==
    IF sub = <<>> THEN TRUE
    ELSE IF seq = <<>> THEN FALSE
    ELSE IF Head(sub) = Head(seq) THEN IsSubsequence(Tail(sub), Tail(seq))
    ELSE IsSubsequence(sub, Tail(seq))

Occurrences(x, seq) == Cardinality({i \in DOMAIN seq : seq[i] = x})
\* Every chunk occurs in sub at most as often as in seq.
IsSubBag(sub, seq) ==
    \A i \in DOMAIN sub : Occurrences(sub[i], sub) <= Occurrences(sub[i], seq)

\* C7: after the global pass the pages hold at most global_k chunks in all.
C7_GlobalCap ==
    rkpc = "done" => TotalChunks(final_result) <= global_k

\* C8: after the local pass a page that had n chunks has min(local_k, n) of
\* them, whatever the other pages hold; a page without chunks is as it was.
C8_LocalCap ==
    rkpc = "done" =>
        /\ Len(local_result) = Len(rk_result)
        /\ \A i \in DOMAIN rk_result :
              /\ ChunkCount(local_result[i]) = Min(local_k, ChunkCount(rk_result[i]))
              /\ ChunkCount(local_result[i]) <= local_k
              /\ ~TruthyList(rk_result[i].chunks) => local_result[i] = rk_result[i]

\* Two pages ranked, one with more chunks than local_k and one with fewer.
C8_Witness ==
    /\ rkpc = "done" /\ Len(rk_result) = 2 /\ local_k = 2
    /\ ChunkCount(rk_result[1]) < local_k
    /\ ChunkCount(rk_result[2]) > local_k

C4_StagesOnceInOrder ==
    (rpc = "returned" /\ search_response[1].results # <<>>) =>
        /\ StageNames(calls) = <<"search", "scrape", "chunk", "rank">>
        /\ [i \in DOMAIN calls[2].arg |-> calls[2].arg[i].url]
              = [i \in DOMAIN ret[1].results |-> ret[1].results[i].url]

\* C5: once search has returned zero pages, retrieve has returned: with an
\* empty page list, with the time the search took as its only timing, and
\* with search as the only provider called.
C5_ShortCircuit ==
    (search_response # None /\ search_response[1].results = <<>>) =>
        /\ rpc = "returned"
        /\ ret # None
        /\ ret[1].results = <<>>
        /\ ret[1].total_results = 0
        /\ ret[1].search_time_ms = search_done_at - start_time
        /\ StageNames(calls) = <<"search">>

\* A search that took a tick and found nothing.
C5_Witness ==
    /\ rpc = "returned"
    /\ search_response # None /\ search_response[1].results = <<>>
    /\ ret # None /\ ret[1].search_time_ms = 1

\* C6: check_availability answers true exactly when the search provider, the
\* scraper and the chunker are all available.
C6_AvailabilityIsAnd ==
    avpc = "done" =>
        all_available =
            Some(/\ (search_has_check => search_available = "yes")
                 /\ scraper_available
                 /\ ValidateParameters(chunk_size, chunk_overlap))

\* ------------------------------------------------- injection properties
RolesOf(messages) == [i \in DOMAIN messages |-> messages[i].role]
IsContext(message) == message.content.kind = "search_results"

\* C10: an injection adds exactly one message, a system message carrying the
\* context; it stands immediately before the last user message of the
\* conversation, or at the end when there is no user message; the other
\* messages are the original ones in their original order.
C10_InsertedBeforeLastUser ==
    ipc = "injected" =>
        LET old == GetMessages(request_body.doc)
            new == out_body.doc.messages
            U == {i \in DOMAIN old : old[i].role = "user"}
            p == IF U = {} THEN Len(old) + 1
                 ELSE CHOOSE i \in U : \A j \in U : j <= i
        IN /\ Len(new) = Len(old) + 1
           /\ new[p].role = "system" /\ IsContext(new[p])
           /\ Cardinality({i \in DOMAIN new : IsContext(new[i])}) = 1
           /\ \A i \in DOMAIN old : old[i] = new[IF i < p THEN i ELSE i + 1]
           /\ U # {} =>
                 /\ new[p + 1].role = "user"
                 /\ \A j \in DOMAIN new : j > p + 1 => new[j].role # "user"
           /\ U = {} => p = Len(new)

\* The conversation system, user, assistant, user after injection.
C10_Witness ==
    /\ ipc = "injected"
    /\ RolesOf(GetMessages(request_body.doc)) = <<"system", "user", "assistant", "user">>
    /\ RolesOf(out_body.doc.messages) = <<"system", "user", "assistant", "system", "user">>
    /\ out_body.doc.messages[5] = request_body.doc.messages[4]

\* C11: an injection call on a body that is not valid JSON has returned the
\* very bytes it was given and an empty sources map; the call ends in a
\* return (skipped or failed), never in an exception.
C11_InvalidJsonUnchanged ==
    (ipc \notin {"idle", "start"} /\ LoadsRaises(request_body)) =>
        /\ ipc \in {"skipped", "failed"}
        /\ out_body = request_body
        /\ sources = EmptyMap

\* A body that is not JSON met a search result with pages.
C11_Witness ==
    /\ ipc = "failed"
    /\ LoadsRaises(request_body)
    /\ ~NothingToInject(inj_search_result)

\* ------------------------------------------------- resolver properties
Done(i) == cpc[i] = "done"

\* C13: a call that starts after some call has returned a provider returns
\* that very provider, constructs none and runs no availability check.
C13_LaterCallSameInstance ==
    \A i \in Callers :
        Done(i) =>
            \A p \in seen[i] :
                /\ result[i] = Some(p)
                /\ ~built[i] /\ ~checked[i]

\* C14: over all concurrent calls at most one provider instance is
\* constructed, and all callers that get a provider get the same one.
C14_OneInstance ==
    /\ Cardinality({i \in Callers : built[i]}) <= 1
    /\ \A i, j \in Callers :
          (Done(i) /\ Done(j) /\ result[i] # None /\ result[j] # None)
              => result[i] = result[j]

\* The stage cannot be constructed on a fresh manager under settings st.
StageUnavailable(stage, st) == GetStageProvider(stage, None, st, 0) = None

\* C15: with the custom pipeline configured and a stage that cannot be
\* constructed, every call that has ended returned None, built no pipeline
\* and assigned none to the cache, which stays empty.
C15_MissingStageGivesNone ==
    (/\ RagEnum(settings) = Some("custom")
     /\ \E stage \in StageNamesAll : StageUnavailable(stage, settings)) =>
        /\ providers.rag = None
        /\ \A i \in Callers :
              Done(i) => result[i] = None /\ ~built[i] /\ ~wrote[i]

\* Serper is configured without an API key: the call gathered a scraper, a
\* chunker and a ranker, no search provider, and has ended.
C15_Witness ==
    /\ RagEnum(settings) = Some("custom")
    /\ settings.web_search_provider = "serper" /\ ~settings.serper_api_key
    /\ \E i \in Callers :
          /\ Done(i) /\ gidx[i] > Len(StageSeq)
          /\ gathered[i].search = None
          /\ AllStagesButSearch(gathered[i])

\* The name configured for a stage, and whether it is set but not a known
\* one.
ConfiguredName(stage, st) ==
    CASE stage = "search" -> st.web_search_provider
      [] stage = "scrape" -> st.web_scraper_provider
      [] stage = "chunk" -> st.web_chunker_provider
      [] stage = "rank" -> st.web_ranking_provider
KnownNames(stage) ==
    CASE stage = "search" -> WebSearchProviderEnum
      [] stage = "scrape" -> WebScrapeProviderEnum
      [] stage = "chunk" -> WebChunkProviderEnum
      [] stage = "rank" -> WebRankProviderEnum
Unrecognised(stage, st) ==
    LowerName(ConfiguredName(stage, st)) \notin KnownNames(stage) \cup {"", "none"}
DefaultImpl(stage) ==
    CASE stage = "search" -> "SerperWebSearch"
      [] stage = "scrape" -> "HTTPWebScrape"
      [] stage = "chunk" -> "RecursiveChunker"
      [] stage = "rank" -> "BM25WebRank"

\* C16 as claimed: a getter called under an unrecognised name (and whose
\* constructor did not raise) returned the stage's default implementation.
C16_UnknownNameGivesDefault ==
    \A stage \in StageNamesAll :
        (/\ stage_ret[stage].called
         /\ Unrecognised(stage, settings)
         /\ ~stage_ret[stage].ctor_raised) =>
            /\ stage_ret[stage].result # None
            /\ stage_ret[stage].result[1].impl = DefaultImpl(stage)

\* C16 as amended: under an unrecognised name the scrape, chunk and rank
\* getters return the stage's default implementation (None exactly when its
\* constructor raises), and the search getter returns None.
C16_UnknownNameFallback ==
    \A stage \in StageNamesAll :
        (stage_ret[stage].called /\ Unrecognised(stage, settings)) =>
            IF stage = "search" THEN stage_ret[stage].result = None
            ELSE IF CtorOk(DefaultImpl(stage), settings)
                 THEN /\ stage_ret[stage].result # None
                      /\ stage_ret[stage].result[1].impl = DefaultImpl(stage)
                 ELSE stage_ret[stage].result = None

\* An unknown chunker gave a RecursiveChunker, an unknown search name None.
C16_Witness ==
    /\ settings.web_chunker_provider = "bogus"
    /\ stage_ret["chunk"].called
    /\ stage_ret["chunk"].result # None
    /\ stage_ret["chunk"].result[1].impl = "RecursiveChunker"
    /\ settings.web_search_provider = "bogus"
    /\ stage_ret["search"].called
    /\ stage_ret["search"].result = None

\* ---------------------------------------------------- enhance properties
\* The cases in which the call has nothing to add to the request.
NoEnhancement ==
    \/ result[EnhCaller] = None
    \/ ExtractQuery(enh_body) = None
    \/ retrieve_raised
    \/ LoadsRaises(enh_body)

\* C12: the enhance call ends by returning a dict, never by raising; success
\* is true only if the SearchResult has a page; without a provider, without
\* a query, after a raising provider or on a malformed body the dict holds
\* the request body as it came and success false.
C12_FailOpen ==
    /\ epc \in {"idle", "provider", "retrieve", "done"}
    /\ epc = "done" <=> enh_ret # None
    /\ enh_ret # None =>
          /\ enh_ret[1].success =>
                enh_search_result # None /\ Len(enh_search_result[1]) >= 1
          /\ NoEnhancement =>
                enh_ret[1].body = enh_body /\ ~enh_ret[1].success

\* The provider raised in retrieve_context and the call has returned.
C12_Witness ==
    /\ enh_ret # None
    /\ retrieve_raised
    /\ enh_query # None
    /\ enh_ret[1].body = enh_body

\* ------------------------------------------- RecursiveChunker properties
RECURSIVE Concat(_)
Concat(chunks) == IF chunks = <<>> THEN <<>> ELSE Head(chunks) \o Concat(Tail(chunks))
NonSpace(t) == SelectSeq(t, LAMBDA c : c \notin SpaceChars)

\* C17 as claimed: without overlap the chunks put end to end are the
\* normalized text.
C17_ConcatIsNormalizedText ==
    (rcpc = "done" /\ rc_chunk_overlap = 0) =>
        Concat(rc_chunks[1]) = Normalize(rc_text)

\* C17 as amended: without overlap the chunks put end to end are the
\* normalized text with some whitespace left out: nothing is added, and
\* every character that is no whitespace is there once and in its place.
C17_ConcatKeepsNonSpace ==
    (rcpc = "done" /\ rc_chunk_overlap = 0) =>
        /\ IsSubsequence(Concat(rc_chunks[1]), Normalize(rc_text))
        /\ NonSpace(Concat(rc_chunks[1])) = NonSpace(Normalize(rc_text))

\* Three words cut into two chunks at a blank, the first chunk a join.
C17_Witness ==
    /\ rcpc = "done" /\ rc_chunk_overlap = 0
    /\ rc_text = <<"a", " ", "b", " ", "c">>
    /\ rc_chunks[1] = << <<"a", " ", "b">>, <<"c">> >>

\* C18: with an overlap and more than one chunk, chunk 1 is the raw chunk 1
\* and chunk i > 1 is the last chunk_overlap characters of raw chunk i-1
\* followed by raw chunk i, so it is at most chunk_overlap longer.
C18_OverlapFromRawChunk ==
    (rcpc = "done" /\ rc_chunk_overlap > 0 /\ Len(rc_raw[1]) > 1) =>
        /\ Len(rc_chunks[1]) = Len(rc_raw[1])
        /\ rc_chunks[1][1] = rc_raw[1][1]
        /\ \A i \in 2..Len(rc_raw[1]) :
              /\ rc_chunks[1][i] =
                     LastChars(rc_raw[1][i - 1], rc_chunk_overlap) \o rc_raw[1][i]
              /\ Len(rc_chunks[1][i]) <= Len(rc_raw[1][i]) + rc_chunk_overlap

\* A raw chunk shorter than the overlap sits between two others.
C18_Witness ==
    /\ rcpc = "done" /\ rc_chunk_overlap = 2
    /\ rc_raw[1] = << <<"a", "a">>, <<"b">>, <<"c", "c">> >>
    /\ rc_chunks[1] = << <<"a", "a">>, <<"a", "a", "b">>, <<"b", "c", "c">> >>

\* ------------------------------------------- FixedSizeChunker properties
\* C19: every chunk is at most chunk_size long, but for the last one when a
\* remainder shorter than 30% of chunk_size was appended to it, which is then
\* longer than chunk_size by less than 30% of chunk_size at most.
C19_ChunkSizeBound ==
    fxpc = "done" =>
        \A i \in DOMAIN fx_chunks :
            IF i = Len(fx_chunks) /\ fx_merged
            THEN 10 * (Len(fx_chunks[i]) - fx_chunk_size) < 3 * fx_chunk_size
            ELSE Len(fx_chunks[i]) <= fx_chunk_size

\* A remainder was appended and the last chunk is longer than chunk_size.
C19_Witness ==
    /\ fxpc = "done" /\ fx_merged
    /\ Len(fx_chunks) > 1
    /\ Len(fx_chunks[Len(fx_chunks)]) > fx_chunk_size

\* ------------------------------------------------- extraction properties
\* The available extractors whose call gives content that is not empty.
Yielding ==
    {i \in DOMAIN Extractors(ex_available) :
        Usable(ex_outcome[Extractors(ex_available)[i]])}
FirstYielding == CHOOSE i \in Yielding : \A j \in Yielding : i <= j

\* C20: the call ends by returning; the extractors were tried in their order
\* up to the first one that yields content; the value returned is that
\* content, which is not empty, or the raw HTML if no extractor yields any.
C20_FirstContentOrRawHtml ==
    /\ expc \in {"idle", "loop", "done"}
    /\ expc = "done" =>
          /\ ex_ret # None
          /\ IF Yielding = {}
             THEN /\ ex_tried = Extractors(ex_available)
                  /\ ex_ret[1] = ex_raw_html
             ELSE /\ ex_tried = SubSeq(Extractors(ex_available), 1, FirstYielding)
                  /\ ex_ret[1] =
                         StripText(ex_outcome[Extractors(ex_available)[FirstYielding]].content)
                  /\ ex_ret[1] # <<>>

\* ------------------------------------- RecursiveChunker: size and cuts
\* C24: without overlap no chunk is longer than chunk_size.
C24_ChunkWithinSize ==
    (rcpc = "done" /\ rc_chunk_overlap = 0) =>
        \A i \in DOMAIN rc_chunks[1] : Len(rc_chunks[1][i]) <= rc_chunk_size

\* The non-blank pieces of a text at one separator, as a set.
Pieces(current_sep, text) ==
    LET splits == NonBlank(SplitBy(current_sep, text))
    IN {splits[i] : i \in DOMAIN splits}
Paragraphs(text) == Pieces("\n\n", Normalize(text))
LinesOf(text) == UNION {Pieces("\n", p) : p \in Paragraphs(text)}
SentencesOf(text) == UNION {Pieces("SENTENCE_END", l) : l \in LinesOf(text)}

\* unit is a contiguous part of chunk
Within(unit, chunk) ==
    \E i \in 1..(Len(chunk) - Len(unit) + 1) :
        SubSeq(chunk, i, i + Len(unit) - 1) = unit
Uncut(unit) == \E i \in DOMAIN rc_chunks[1] : Within(unit, rc_chunks[1][i])

\* Two pieces at one separator that make up the text and do not fit into one
\* chunk together.
TwoPieces(current_sep) ==
    LET splits == NonBlank(SplitBy(current_sep, Normalize(rc_text)))
    IN /\ Len(splits) = 2
       /\ Len(splits[1]) <= rc_chunk_size
       /\ Len(splits[2]) <= rc_chunk_size
       /\ Len(splits[1]) + Len(splits[2]) >= rc_chunk_size
       /\ (current_sep = "SENTENCE_END" => Cardinality(LinesOf(rc_text)) = 1)

\* C27: without overlap a paragraph, line or sentence that is no longer than
\* chunk_size lies whole inside one chunk: a chunk boundary falls inside it
\* only if it alone is longer than chunk_size. Two paragraphs, and two
\* sentences, that do not fit together are returned as exactly the two.
C27_CoarsestSeparatorFirst ==
    (rcpc = "done" /\ rc_chunk_overlap = 0 /\ StripText(rc_text) # <<>>) =>
        /\ \A unit \in Paragraphs(rc_text) \cup LinesOf(rc_text)
                       \cup SentencesOf(rc_text) :
               Len(unit) <= rc_chunk_size => Uncut(unit)
        /\ \A current_sep \in {"\n\n", "SENTENCE_END"} :
               TwoPieces(current_sep) =>
                   rc_chunks[1] =
                       NonBlank(SplitBy(current_sep, Normalize(rc_text)))
C27_Witness ==
    /\ rcpc = "done" /\ rc_chunk_overlap = 0
    /\ Len(rc_chunks[1]) = 2
    /\ TwoPieces("\n\n")
    /\ \E unit \in LinesOf(rc_text) : unit \notin Paragraphs(rc_text)

\* ------------------------------------- FixedSizeChunker: cursor and chunks
\* C28: the cursor strictly advances on every iteration of the loop, also
\* when chunk_overlap >= chunk_size, so that chunk_text terminates.
C28_CursorAdvances ==
    [][(lppc = "loop" /\ lppc' = "loop") => lp_start' > lp_start]_vars

\* C29: for a valid chunk_overlap every chunk returned is a contiguous part
\* of the text, also the last chunk when the remainder was appended to it.
C29_ChunksAreSubstrings ==
    (lppc = "done" /\ lp_chunk_overlap < lp_chunk_size) =>
        \A i \in DOMAIN lp_chunks : Within(lp_chunks[i], lp_text)

\* ----------------------------------------------- BM25WebRank: empty input
RankReturned == rkpc \in {"done", "unranked"}
NoChunksAnywhere == \A i \in DOMAIN rk_result : rk_result[i].chunks = None

\* C23: rank returns a SearchResult without pages as it is; a page whose
\* chunks is None is returned unchanged, its chunks still None; rank does not
\* raise for a result without pages or with pages whose chunks are all None.
C23_EmptyAndNonePassThrough ==
    /\ (rkpc # "start" /\ rk_result = <<>>) =>
           (RankReturned /\ final_result = rk_result)
    /\ RankReturned =>
           \A i \in DOMAIN rk_result :
               rk_result[i].chunks = None =>
                   (final_result[i] = rk_result[i]
                    /\ final_result[i].chunks = None)
    /\ (rkpc # "start" /\ NoChunksAnywhere) => RankReturned
C23_Witness ==
    /\ rkpc = "done"
    /\ \E i \in DOMAIN rk_result : rk_result[i].chunks = None
    /\ \E i \in DOMAIN rk_result :
           rk_result[i].chunks # None /\ final_result[i] # rk_result[i]

\* ------------------------------------------- scrape_webpages: termination
\* C30: once every scrape_url call ends, every page waiting on the semaphore
\* is fetched and scrape_webpages returns; when it has returned all
\* max_concurrent permits are free again.
C30_ScrapeTerminates ==
    /\ \A i \in 1..MaxPages :
           (phase = "scrape" /\ i \in Tasks /\ tpc[i] = "waiting")
               ~> (i \in Tasks /\ fetched[i] # "pending")
    /\ <>(phase # "scrape")
    /\ [](phase # "scrape" => semaphore = max_concurrent)
C30_Witness ==
    /\ phase = "chunk"
    /\ N > max_concurrent
    /\ semaphore = max_concurrent
    /\ \E i, j \in Tasks : fetched[i] = "raised" /\ fetched[j] = "ok"

\* ------------------------------------------- scrape_url: size and type
\* C25: a fetch never holds more than MaxBodyBytes body bytes in memory, and
\* a body larger than that is rejected with None as the page's content,
\* whatever Content-Length was declared.
C25_BodyCeiling ==
    /\ buffered <= MaxBodyBytes
    /\ (ftpc = "done" /\ body_size > MaxBodyBytes) => scrape_ret = None

\* The content-type check of a received response has been made / was passed.
TypeChecked == ftpc = "typed" \/ (ftpc = "done" /\ rejected \notin {"url", "request"})
PassedTypeCheck == TypeChecked /\ rejected # "content-type"
HtmlOrPlain ==
    {Some(<<"text/", "html">>), Some(<<"text/", "html", "; charset=utf-8">>),
     Some(<<"TEXT/", "HTML">>), Some(<<"text/", "plain">>)}
XmlTypes ==
    {Some(<<"text/", "xml">>), Some(<<"application/", "xml">>),
     Some(<<"application/", "xhtml", "+", "xml">>)}

\* C26 as stated: a response passes the content-type check exactly when its
\* content-type starts with text/html or text/plain or contains xml; a
\* response that does not pass leaves the content None.
C26_HtmlPlainOrXml ==
    TypeChecked =>
        /\ PassedTypeCheck <=> header_content_type \in HtmlOrPlain \cup XmlTypes
        /\ ~PassedTypeCheck => scrape_ret = None

\* C26, amended: a response passes the content-type check exactly when its
\* content-type, in lower case, starts with text/html or text/plain; every
\* other content-type, the XML ones and a missing one included, is rejected
\* and the content is None.
C26_HtmlOrPlainOnly ==
    TypeChecked =>
        /\ PassedTypeCheck <=> header_content_type \in HtmlOrPlain
        /\ ~PassedTypeCheck => (ftpc = "done" /\ scrape_ret = None)
C26_Witness ==
    /\ ftpc = "done"
    /\ rejected = "content-type"
    /\ header_content_type \in XmlTypes
    /\ scrape_ret = None

\* --------------------------------------------------- stages and their input
\* C22: a stage does not mutate its input: when the scrape stage returns,
\* every page of the SearchResult it was given has the field values it had
\* when the stage was called.
C22_ScrapeLeavesInput ==
    [][(rpc = "scraping" /\ rpc' \in {"chunk_text", "returned"}) =>
          search_response'[1].results = search_response[1].results]_vars

\* ------------------------------------------- scrape_webpages: cancellation
\* C21: when a deadline or a cancellation fires during the retrieval, no
\* fetch is started after it and the call does not fail: it returns the pages
\* completed so far.
C21_PartialResultOnCancel ==
    /\ [][phase = "cancelling" =>
             \A i \in Tasks : tpc'[i] = "fetching" => tpc[i] = "fetching"]_vars
    /\ [](phase # "cancelled")

====
